---- MODULE Spec2Model ----
(***************************************************************************)
(* Verification model of the Stevens Connect integration                   *)
(* (app/actions/handlers.py, app/actions/client.py,                        *)
(* app/actions/configurations.py).                                         *)
(*                                                                         *)
(* Time is counted in ticks; Day ticks make one day.  A datetime is the    *)
(* number of ticks since an arbitrary epoch, in UTC.                       *)
(***************************************************************************)
EXTENDS Integers, Sequences, FiniteSets, TLC

(* ---------------------------------------------------------------------- *)
(* Bounds of the model                                                     *)
(* ---------------------------------------------------------------------- *)
\* ticks per day (resolution of the model's clock)
Day == 4
\* largest instant drawn as an input of generate_date_pairs
MaxT == 20
\* the paging loop of get_sensor_readings is cut after this page
MaxPages == 2
\* most ticks the clock advances while one awaited call is in progress
MaxStep == 1
\* runs of action_pull_observations in one behaviour
MaxRuns == 2

(* ---------------------------------------------------------------------- *)
(* Program constants                                                       *)
(* ---------------------------------------------------------------------- *)
MAX_DAYS_PER_QUERY == 2

Max(a, b) == IF a >= b THEN a ELSE b
Min(a, b) == IF a <= b THEN a ELSE b

\* timedelta(days=n)
timedelta(days) == days * Day

(* ---------------------------------------------------------------------- *)
(* handlers.generate_date_pairs: the windows it yields, in yield order     *)
(* ---------------------------------------------------------------------- *)
RECURSIVE generate_date_pairs_mut(_, _)
generate_date_pairs_mut(lower_date, upper_date) ==
    IF upper_date > lower_date
    THEN <<[lower |-> upper_date - timedelta(MAX_DAYS_PER_QUERY), upper |-> upper_date]>>
         \o generate_date_pairs_mut(lower_date, upper_date - timedelta(MAX_DAYS_PER_QUERY))
    ELSE <<>>

RECURSIVE generate_date_pairs(_, _)
generate_date_pairs(lower_date, upper_date) ==
    IF upper_date > lower_date
    THEN <<[lower |-> Max(lower_date, upper_date - timedelta(MAX_DAYS_PER_QUERY)),
            upper |-> upper_date]>>
         \o generate_date_pairs(lower_date, upper_date - timedelta(MAX_DAYS_PER_QUERY))
    ELSE <<>>

(* ---------------------------------------------------------------------- *)
(* Python values and exceptions                                            *)
(* ---------------------------------------------------------------------- *)
\* a str value, and None
Str(s) == [py |-> "str", v |-> s]
None == [py |-> "None", v |-> ""]
\* bool(value)
Truthy(value) == value.py = "str" /\ value.v # ""

Exc(type, status_code) == [type |-> type, status_code |-> status_code]
NoExc == Exc("", 0)
\* isinstance(exc, httpx.HTTPError): HTTPStatusError and the transport errors;
\* the StevensConnect*Exception classes derive from Exception alone
IsHTTPError(exc) == exc.type \in {"HTTPStatusError", "TransportError"}

Returned(value) == [kind |-> "return", value |-> value, exc |-> NoExc]
Raised(exc) == [kind |-> "raise", value |-> None, exc |-> exc]
NoResult == [kind |-> "", value |-> None, exc |-> NoExc]

(* ---------------------------------------------------------------------- *)
(* The upstream's answers to one HTTP request                              *)
(* ---------------------------------------------------------------------- *)
\* json: "token" = {"data": {"token": t}}, "notoken" = {"data": {}},
\* "nodata" = a truthy envelope without "data", "falsy" = {} (text "{}")
HttpResponse(status, json, token, text) ==
    [kind |-> "http", status |-> status, json |-> json, token |-> token, text |-> text]
TransportFailure == [kind |-> "transport", status |-> 0, json |-> "", token |-> "", text |-> ""]

Tokens == {"tokA", "tokB"}
ErrorStatuses == {400, 401, 404, 500}

AuthResponses ==
    {HttpResponse(200, "token", t, "") : t \in Tokens}
    \cup {HttpResponse(200, "notoken", "", ""),
          HttpResponse(200, "nodata", "", ""),
          HttpResponse(200, "falsy", "", "{}")}
    \cup {HttpResponse(st, "", "", "") : st \in ErrorStatuses}
    \cup {TransportFailure}

\* response.raise_for_status() raises HTTPStatusError
IsErrorStatus(resp) == resp.status < 200 \/ resp.status >= 300

(* ---------------------------------------------------------------------- *)
(* client.get_token: one execution of the function body                    *)
(* ---------------------------------------------------------------------- *)
get_token_body_mut(resp) ==
    IF resp.kind = "transport" THEN Raised(Exc("TransportError", 0))
    ELSE IF IsErrorStatus(resp)
    THEN IF resp.status = 400
         THEN Raised(Exc("StevensConnectBadRequestException", 400))
         ELSE Raised(Exc("HTTPStatusError", resp.status))
    ELSE IF resp.json = "token" THEN Returned(Str(resp.token))
    ELSE IF resp.json = "notoken" THEN Returned(None)
    ELSE IF resp.json = "nodata" THEN Raised(Exc("KeyError", 0))
    ELSE Returned(Str(resp.text))

get_token_body(resp) ==
    IF resp.kind = "transport" THEN Raised(Exc("TransportError", 0))
    ELSE IF IsErrorStatus(resp)
    THEN IF resp.status = 400
         THEN Raised(Exc("StevensConnectBadRequestException", 400))
         ELSE IF resp.status = 404
         THEN Raised(Exc("StevensConnectNotFoundException", 404))
         ELSE Raised(Exc("HTTPStatusError", resp.status))
    ELSE IF resp.json = "token" THEN Returned(Str(resp.token))
    ELSE IF resp.json = "notoken" THEN Returned(None)
    ELSE IF resp.json = "nodata" THEN Raised(Exc("KeyError", 0))
    ELSE Returned(Str(resp.text))

(* ---------------------------------------------------------------------- *)
(* stamina.retry as client.py configures it                                *)
(* ---------------------------------------------------------------------- *)
\* the arguments given at client.py:96, 127, 155
wait_initial == 4
wait_jitter == 5
wait_max == 32
\* attempts and timeout are not given, so the library's defaults apply
StaminaAttempts == 10
StaminaTimeout == 45

\* seconds one request may take (the session's timeout is 120 s)
ReqSeconds == {0, 30}
\* the random part of a backoff, between 0 and wait_jitter
JitterSeconds == {0, wait_jitter}

\* the wait after the attempt-th failed attempt
StaminaBackoff(attempt, jitter) ==
    Min(wait_max, wait_initial * (2 ^ (attempt - 1)) + jitter)

\* the wrapper stops retrying: attempts used up or the time budget spent
StaminaStop_mut(attempt, elapsed) == attempt >= 2
StaminaStop(attempt, elapsed) ==
    attempt >= StaminaAttempts \/ elapsed >= StaminaTimeout

\* get_token: @stamina.retry(on=httpx.HTTPError, ...)
get_token_retry_on_mut(exc) == exc.type # ""
get_token_retry_on(exc) == IsHTTPError(exc)

(* ---------------------------------------------------------------------- *)
(* client.ChannelReading, ChannelReadingsResponse and the readings pages   *)
(* ---------------------------------------------------------------------- *)
\* a timestamp as sent: wall clock and whether it names a zone
RawTime(wall, tz) == [wall |-> wall, tz |-> tz]
\* ChannelReading.parse_time_string: without tzinfo, UTC is set
parse_time_string(v) == IF v.tz = "naive" THEN RawTime(v.wall, "utc") ELSE v

ChannelReading(channel_id, reading, timestamp) ==
    [channel_id |-> channel_id, reading |-> reading,
     timestamp |-> parse_time_string(timestamp)]

\* ChannelReadingsResponse.readings of three pages: per channel (in key
\* order) the list of its readings
PageContents ==
    { <<>>,
      << <<ChannelReading("c1", 10, RawTime(1, "naive"))>>,
         <<ChannelReading("c2", 20, RawTime(1, "utc"))>> >>,
      << <<ChannelReading("c1", 11, RawTime(1, "utc")),
           ChannelReading("c1", 12, RawTime(2, "naive"))>>,
         <<>> >> }

\* paging["last_page"] as the upstream may report it on page `page`
LastPages(page) == {page - 1, page, page + 1, page + 2}

PageResponse(status, json, readings, last_page, text) ==
    [kind |-> "http", status |-> status, json |-> json, readings |-> readings,
     last_page |-> last_page, text |-> text]
PageTransportFailure ==
    [kind |-> "transport", status |-> 0, json |-> "", readings |-> <<>>,
     last_page |-> 0, text |-> ""]

\* json: "data" = {"data": {"readings": .., "paging": ..}}, "nodata" = a
\* truthy envelope without "data", "falsy" = {} (text "{}")
ReadingsResponses(page) ==
    {PageResponse(200, "data", c, lp, "") : c \in PageContents, lp \in LastPages(page)}
    \cup {PageResponse(200, "nodata", <<>>, 0, ""),
          PageResponse(200, "falsy", <<>>, 0, "{}")}
    \cup {PageResponse(st, "", <<>>, 0, "") : st \in ErrorStatuses}
    \cup {PageTransportFailure}

\* readings.paging["last_page"] > current_page
has_more_pages_mut(last_page, current_page) == last_page >= current_page
has_more_pages_capped(last_page, current_page) ==
    last_page > current_page /\ current_page < 2
has_more_pages(last_page, current_page) == last_page > current_page

\* for channel_readings in total_readings: for reading in channel_readings
RECURSIVE Flatten(_)
Flatten(lists) ==
    IF lists = <<>> THEN <<>> ELSE Head(lists) \o Flatten(Tail(lists))

\* grouped_readings[reading.timestamp].append(reading), keys in insertion order
GroupAppend(groups, reading) ==
    IF \E i \in 1..Len(groups) : groups[i].timestamp = reading.timestamp
    THEN [i \in 1..Len(groups) |->
            IF groups[i].timestamp = reading.timestamp
            THEN [groups[i] EXCEPT !.readings = Append(@, reading)]
            ELSE groups[i]]
    ELSE Append(groups, [timestamp |-> reading.timestamp, readings |-> <<reading>>])

RECURSIVE GroupFrom(_, _)
GroupFrom(groups, flat) ==
    IF flat = <<>> THEN groups
    ELSE GroupFrom(GroupAppend(groups, Head(flat)), Tail(flat))

group_readings_mut(total_readings) ==
    IF total_readings = <<>> THEN <<>>
    ELSE GroupFrom(<<>>, Flatten(<<Head(total_readings)>>))
\* lines 204-211: the grouped_readings mapping built from total_readings
group_readings(total_readings) == GroupFrom(<<>>, Flatten(total_readings))

\* what get_sensor_readings gives its caller: the grouped mapping, the raw
\* body text, or an exception
RdGrouped(groups) == [kind |-> "grouped", groups |-> groups, text |-> "", exc |-> NoExc]
RdText(text) == [kind |-> "text", groups |-> <<>>, text |-> text, exc |-> NoExc]
RdRaised(exc) == [kind |-> "raise", groups |-> <<>>, text |-> "", exc |-> exc]
RdNoResult == [kind |-> "", groups |-> <<>>, text |-> "", exc |-> NoExc]

\* the except clause of get_projects and get_sensor_readings, lines 197-202
classify_status_mut(status) ==
    IF status = 401 THEN Exc("StevensConnectUnauthorizedException", 401)
    ELSE Exc("HTTPStatusError", status)
classify_status(status) ==
    IF status = 401 THEN Exc("StevensConnectUnauthorizedException", 401)
    ELSE IF status = 404 THEN Exc("StevensConnectNotFoundException", 404)
    ELSE Exc("HTTPStatusError", status)

\* get_projects, get_sensor_readings:
\* @stamina.retry(on=StevensConnectUnauthorizedException, ...)
retry_on_unauthorized_mut(exc) == exc.type = "StevensConnectNotFoundException"
retry_on_unauthorized(exc) == exc.type = "StevensConnectUnauthorizedException"

(* ---------------------------------------------------------------------- *)
(* Date strings: channel_health["last_reading"] and the stored updated_at  *)
(* ---------------------------------------------------------------------- *)
\* a string is a sequence of parts: the text of a date-time ("time"), the
\* text " (UTC)" ("utc"), or anything else ("junk")
TimePart(t) == [k |-> "time", t |-> t]
UtcPart == [k |-> "utc", t |-> 0]
JunkPart == [k |-> "junk", t |-> 0]

\* "2024-01-01 00:00:00 (UTC)" as the catalog reports a last reading
LastReadingText(t) == <<TimePart(t), UtcPart>>

\* s.replace(" (UTC)", ""): every occurrence is removed
replace_utc_mut(s) == s
replace_utc(s) == SelectSeq(s, LAMBDA part : part.k # "utc")

\* dateparser.parse: a datetime (wall clock, zone) or None
NoDatetime == [ok |-> FALSE, wall |-> 0, tz |-> ""]
Datetime(wall, tz) == [ok |-> TRUE, wall |-> wall, tz |-> tz]
dp(s) ==
    IF Len(s) = 1 /\ s[1].k = "time" THEN Datetime(s[1].t, "naive")
    ELSE IF Len(s) = 2 /\ s[1].k = "time" /\ s[2].k = "utc" THEN Datetime(s[1].t, "utc")
    ELSE NoDatetime
\* datetime.replace(tzinfo=timezone.utc): the wall clock is kept
replace_tzinfo_utc(dt) == Datetime(dt.wall, "utc")
\* the instant of an aware UTC datetime, in ticks
Instant(dt) == dt.wall

(* ---------------------------------------------------------------------- *)
(* The watermark store (IntegrationStateManager)                           *)
(* ---------------------------------------------------------------------- *)
NoState == [present |-> FALSE, updated_at |-> <<>>]
State(updated_at) == [present |-> TRUE, updated_at |-> updated_at]

(* ---------------------------------------------------------------------- *)
(* The catalog: client.ProjectResponse and its parts                       *)
(* ---------------------------------------------------------------------- *)
\* channel_health is a dict; has_last_reading tells whether the key is there
Channel(id, has_last_reading, last_reading) ==
    [id |-> id,
     channel_health |-> [has_last_reading |-> has_last_reading, last_reading |-> last_reading]]
Sensor(id, name, channels) == [id |-> id, name |-> name, channels |-> channels]
Station(name, sensors) == [name |-> name, sensors |-> sensors]
Project(id, stations) == [id |-> id, stations |-> stations]
ProjectResponse(projects) == [projects |-> projects]

SensorIds == {"s1", "s2", "s3", "x1", "x2"}

\* a sensor with one channel whose last reading was `lag` ticks before t
Reporting(id, name, t, lag) ==
    Sensor(id, name, <<Channel("c-" \o id, TRUE, LastReadingText(t - lag))>>)

CatZero == ProjectResponse(<<>>)
CatOne(t) ==
    ProjectResponse(<<Project("1", <<Station("St1", <<Reporting("s1", "S1", t, 1)>>)>>)>>)
CatFilter(t) ==
    ProjectResponse(<<Project("1", <<Station("St1",
        <<Reporting("x1", "Statistics", t, 1),
          Reporting("s1", "S1", t, 1),
          Reporting("x2", "Diagnostic Parameters", t, 1),
          Reporting("s3", "statistics", t, 2)>>)>>)>>)
CatTwo(t) ==
    ProjectResponse(
        <<Project("1", <<Station("St1", <<Reporting("s1", "S1", t, 0)>>)>>),
          Project("2", <<Station("St2", <<Sensor("s2", "S2", <<>>),
                                          Reporting("x1", "Statistics", t, 1)>>),
                         Station("St3", <<Sensor("s3", "S3",
                                            <<Channel("c-s3", FALSE, <<>>)>>)>>)>>)>>)

\* the catalogs the upstream may serve at time t
Catalogs(t) == {CatZero, CatOne(t), CatFilter(t), CatTwo(t)}

(* ---------------------------------------------------------------------- *)
(* client.get_projects: what a call ends with                              *)
(* ---------------------------------------------------------------------- *)
PrCatalog(catalog) == [kind |-> "catalog", catalog |-> catalog, text |-> "", exc |-> NoExc]
PrText(text) == [kind |-> "text", catalog |-> CatZero, text |-> text, exc |-> NoExc]
PrRaised(exc) == [kind |-> "raise", catalog |-> CatZero, text |-> "", exc |-> exc]

\* json: "data" = {"data": {"config_packet": ..}}, "nodata" = a truthy
\* envelope without a config packet, "falsy" = {} (text "{}")
ConfigResponse(status, json, catalog, text) ==
    [kind |-> "http", status |-> status, json |-> json, catalog |-> catalog, text |-> text]
ConfigTransportFailure ==
    [kind |-> "transport", status |-> 0, json |-> "", catalog |-> CatZero, text |-> ""]

ConfigResponses(t) ==
    {ConfigResponse(200, "data", c, "") : c \in Catalogs(t)}
    \cup {ConfigResponse(200, "nodata", CatZero, ""),
          ConfigResponse(200, "falsy", CatZero, "{}")}
    \cup {ConfigResponse(st, "", CatZero, "") : st \in ErrorStatuses}
    \cup {ConfigTransportFailure}

\* lines 129-152: the last attempt of get_projects, given what its get_token
\* call ended with and the answer of /config-packet
get_projects_body(token_out, resp) ==
    IF token_out.kind = "raise" THEN PrRaised(token_out.exc)
    ELSE IF resp.kind = "transport" THEN PrRaised(Exc("TransportError", 0))
    ELSE IF IsErrorStatus(resp) THEN PrRaised(classify_status(resp.status))
    ELSE IF resp.json = "falsy" THEN PrText(resp.text)
    ELSE IF resp.json = "nodata" THEN PrRaised(Exc("ValidationError", 0))
    ELSE PrCatalog(resp.catalog)

\* everything get_projects can end with at time t
GetProjectsOutcomes(t) ==
    {get_projects_body(get_token_body(a), c) : a \in AuthResponses, c \in ConfigResponses(t)}

(* ---------------------------------------------------------------------- *)
(* handlers.action_pull_observations: its pure parts                       *)
(* ---------------------------------------------------------------------- *)
\* line 99: sensor.name not in ["Statistics", "Diagnostic Parameters"]
sensor_kept_mut(sensor) == sensor.name # "Statistics"
sensor_kept(sensor) == sensor.name \notin {"Statistics", "Diagnostic Parameters"}

\* lines 89-103: the sensors the three nested loops reach, in loop order,
\* each with its project and station
RECURSIVE StationWork(_, _, _)
StationWork(project, station, sensors) ==
    IF sensors = <<>> THEN <<>>
    ELSE (IF sensor_kept(Head(sensors))
          THEN <<[project_id |-> project.id, station |-> station.name, sensor |-> Head(sensors)]>>
          ELSE <<>>)
         \o StationWork(project, station, Tail(sensors))

RECURSIVE ProjectWork(_, _)
ProjectWork(project, stations) ==
    IF stations = <<>> THEN <<>>
    ELSE StationWork(project, Head(stations), Head(stations).sensors)
         \o ProjectWork(project, Tail(stations))

RECURSIVE CatalogWork(_)
CatalogWork(projects) ==
    IF projects = <<>> THEN <<>>
    ELSE ProjectWork(Head(projects), Head(projects).stations) \o CatalogWork(Tail(projects))

\* PullObservationsConfig.default_lookback_days: ge=1, le=15, default 7
LookbackDays == {1, 2, 7, 15}

\* lines 110-115: start_date from the state read; ok is FALSE when
\* dp(...) is None and .replace raises AttributeError
start_date_mut(device_state, now, lookback) ==
    [ok |-> TRUE, at |-> now - timedelta(lookback)]
start_date(device_state, now, lookback) ==
    IF ~device_state.present
    THEN [ok |-> TRUE, at |-> now - timedelta(lookback)]
    ELSE IF dp(device_state.updated_at).ok
    THEN [ok |-> TRUE, at |-> Instant(replace_tzinfo_utc(dp(device_state.updated_at)))]
    ELSE [ok |-> FALSE, at |-> 0]

\* configurations.PullSensorObservationsPerStationConfig: its fields, all
\* declared without a default, so all required by pydantic
ConfigRequiredFields ==
    {"start", "stop", "project_id", "station", "sensor_featured_properties", "sensor", "units"}
\* lines 121-128: the keyword arguments the handler passes
ConfigPassedFields == {"start", "stop", "project_id", "station", "sensor", "units"}

\* PullSensorObservationsPerStationConfig(**fields): the model, or
\* ValidationError when a required field is missing
parse_config(passed, lower, upper, work, units) ==
    IF ConfigRequiredFields \subseteq passed
    THEN [ok |-> TRUE, start |-> lower, stop |-> upper, project_id |-> work.project_id,
          station |-> work.station, sensor |-> work.sensor.id]
    ELSE [ok |-> FALSE, start |-> lower, stop |-> upper, project_id |-> work.project_id,
          station |-> work.station, sensor |-> work.sensor.id]

\* line 133: sensor.channels[0].channel_health["last_reading"].replace(..)
latest_time(sensor) ==
    IF sensor.channels = <<>> THEN [ok |-> FALSE, exc |-> Exc("IndexError", 0), value |-> <<>>]
    ELSE IF ~sensor.channels[1].channel_health.has_last_reading
    THEN [ok |-> FALSE, exc |-> Exc("KeyError", 0), value |-> <<>>]
    ELSE [ok |-> TRUE, exc |-> NoExc,
          value |-> replace_utc(sensor.channels[1].channel_health.last_reading)]

PullReturned(n) == [kind |-> "return", sensors_triggered |-> n, exc |-> NoExc]
PullRaised_mut(exc) == PullReturned(0)
PullRaised(exc) == [kind |-> "raise", sensors_triggered |-> 0, exc |-> exc]
PullNoResult == [kind |-> "", sensors_triggered |-> 0, exc |-> NoExc]

(* ---------------------------------------------------------------------- *)
(* State                                                                   *)
(* ---------------------------------------------------------------------- *)
VARIABLES
    gp_pc,      \* a call of generate_date_pairs: "call" before, "done" after
    gp_lower,   \* argument lower_date
    gp_upper,   \* argument upper_date
    gp_pairs    \* the windows yielded

VARIABLES
    tk_pc,       \* get_token: "idle", "post", "failed", "returned", "raised"
    tk_attempt,  \* number of the current attempt of the retry wrapper
    tk_elapsed,  \* seconds since the first attempt started
    tk_hist,     \* the answers of /authenticate so far, one per POST
    tk_exc,      \* the exception the last attempt raised
    tk_result    \* what get_token gave its caller

VARIABLES
    rd_pc,       \* get_sensor_readings: "idle", "token", "page", "failed",
                 \* "returned", "raised"
    rd_attempt,  \* number of the current attempt of the retry wrapper
    rd_elapsed,  \* seconds since the first attempt started
    rd_token,    \* token of the current attempt
    rd_ntok,     \* calls of get_token made so far
    rd_prev,     \* token of the attempt before the current one
    rd_page,     \* current_page
    rd_total,    \* total_readings
    rd_reqs,     \* the page requests of the current attempt and their answers
    rd_old,      \* number of page requests made by abandoned attempts
    rd_exc,      \* the exception the current attempt raised
    rd_result    \* what get_sensor_readings gave its caller

VARIABLES
    pr_pc,       \* get_projects: "idle", "token", "get", "failed", "returned",
                 \* "raised"
    pr_attempt,  \* number of the current attempt of the retry wrapper
    pr_elapsed,  \* seconds since the first attempt started
    pr_token,    \* token of the current attempt
    pr_ntok,     \* calls of get_token made so far
    pr_prev,     \* token of the attempt before the current one
    pr_reqs,     \* the /config-packet requests made so far and their answers
    pr_exc,      \* the exception the current attempt raised
    pr_result    \* what get_projects gave its caller

VARIABLES
    clock,       \* the wall clock, in ticks (UTC)
    store,       \* the watermark store: sensor id -> state
    tasks,       \* the configs handed to trigger_action, in dispatch order
    trace,       \* the store and scheduler calls made so far, in order
    nruns,       \* runs of action_pull_observations started so far
    pull,        \* the run of action_pull_observations in progress
    runs         \* the local variables of the runs that overlap in time

VARIABLES
    sn_pc,        \* action_pull_sensor_observations_per_station: "idle",
                  \* "fetch", "send", "returned", "raised"
    sn_fetched,   \* sensor_observations, what get_sensor_readings ended with
    sn_data,      \* transformed_data
    sn_batches,   \* the batches of generate_batches not yet sent
    sn_sent,      \* the calls of send_observations_to_gundi and their responses
    sn_extracted, \* observations_extracted
    sn_result     \* what the handler gave its caller

VARIABLES
    au_pc,        \* action_auth: "idle", "token", "returned", "raised"
    au_result     \* what action_auth gave its caller

gp_vars == <<gp_pc, gp_lower, gp_upper, gp_pairs>>
tk_vars == <<tk_pc, tk_attempt, tk_elapsed, tk_hist, tk_exc, tk_result>>
rd_vars == <<rd_pc, rd_attempt, rd_elapsed, rd_token, rd_ntok, rd_prev, rd_page,
             rd_total, rd_reqs, rd_old, rd_exc, rd_result>>

pr_vars == <<pr_pc, pr_attempt, pr_elapsed, pr_token, pr_ntok, pr_prev, pr_reqs,
             pr_exc, pr_result>>

pl_vars == <<clock, store, tasks, trace, nruns, pull, runs>>

sn_vars == <<sn_pc, sn_fetched, sn_data, sn_batches, sn_sent, sn_extracted, sn_result>>

au_vars == <<au_pc, au_result>>

vars == <<gp_vars, tk_vars, rd_vars, pr_vars, pl_vars, sn_vars, au_vars>>

GpOthersUnchanged == UNCHANGED <<tk_vars, rd_vars, pr_vars, pl_vars, sn_vars, au_vars>>
TkOthersUnchanged == UNCHANGED <<gp_vars, rd_vars, pr_vars, pl_vars, sn_vars, au_vars>>
RdOthersUnchanged == UNCHANGED <<gp_vars, tk_vars, pr_vars, pl_vars, sn_vars, au_vars>>
PrOthersUnchanged == UNCHANGED <<gp_vars, tk_vars, rd_vars, pl_vars, sn_vars, au_vars>>
PlOthersUnchanged == UNCHANGED <<gp_vars, tk_vars, rd_vars, pr_vars, sn_vars, au_vars, runs>>
CoOthersUnchanged ==
    UNCHANGED <<gp_vars, tk_vars, rd_vars, pr_vars, sn_vars, au_vars, nruns, pull>>
SnOthersUnchanged == UNCHANGED <<gp_vars, tk_vars, rd_vars, pr_vars, pl_vars, au_vars>>
AuOthersUnchanged == UNCHANGED <<gp_vars, rd_vars, pr_vars, pl_vars, sn_vars>>

(* ---------------------------------------------------------------------- *)
(* Specification SpecPairs: generate_date_pairs on drawn inputs            *)
(* ---------------------------------------------------------------------- *)
GpInit ==
    /\ gp_pc = "call"
    /\ gp_lower \in 0..MaxT
    /\ gp_upper \in 0..MaxT
    /\ gp_pairs = <<>>

GpIdle ==
    /\ gp_pc = "idle"
    /\ gp_lower = 0
    /\ gp_upper = 0
    /\ gp_pairs = <<>>

TkIdle ==
    /\ tk_pc = "idle"
    /\ tk_attempt = 0
    /\ tk_elapsed = 0
    /\ tk_hist = <<>>
    /\ tk_exc = NoExc
    /\ tk_result = NoResult

(* ---------------------------------------------------------------------- *)
(* Specification SpecToken: one call of client.get_token                   *)
(* ---------------------------------------------------------------------- *)
TkInit ==
    /\ tk_pc = "post"
    /\ tk_attempt = 1
    /\ tk_elapsed = 0
    /\ tk_hist = <<>>
    /\ tk_exc = NoExc
    /\ tk_result = NoResult

\* one attempt: the body of get_token, lines 98-124
TkPost ==
    /\ tk_pc = "post"
    /\ \E resp \in AuthResponses, d \in ReqSeconds :
        LET out == get_token_body(resp) IN
        /\ tk_hist' = Append(tk_hist, resp)
        /\ tk_elapsed' = tk_elapsed + d
        /\ IF out.kind = "return"
           THEN /\ tk_pc' = "returned"
                /\ tk_result' = out
                /\ tk_exc' = NoExc
           ELSE /\ tk_pc' = "failed"
                /\ tk_exc' = out.exc
                /\ tk_result' = tk_result
    /\ UNCHANGED tk_attempt
    /\ TkOthersUnchanged

\* the retry wrapper lets the exception through to the caller
TkPropagate ==
    /\ tk_pc = "failed"
    /\ \/ ~get_token_retry_on(tk_exc)
       \/ StaminaStop(tk_attempt, tk_elapsed)
    /\ tk_pc' = "raised"
    /\ tk_result' = Raised(tk_exc)
    /\ UNCHANGED <<tk_attempt, tk_elapsed, tk_hist, tk_exc>>
    /\ TkOthersUnchanged

\* the retry wrapper waits and starts the next attempt
TkRetry ==
    /\ tk_pc = "failed"
    /\ get_token_retry_on(tk_exc)
    /\ ~StaminaStop(tk_attempt, tk_elapsed)
    /\ \E j \in JitterSeconds :
        tk_elapsed' = tk_elapsed + StaminaBackoff(tk_attempt, j)
    /\ tk_attempt' = tk_attempt + 1
    /\ tk_pc' = "post"
    /\ UNCHANGED <<tk_hist, tk_exc, tk_result>>
    /\ TkOthersUnchanged


RdIdle ==
    /\ rd_pc = "idle"
    /\ rd_attempt = 0
    /\ rd_elapsed = 0
    /\ rd_token = None
    /\ rd_ntok = 0
    /\ rd_prev = None
    /\ rd_page = 0
    /\ rd_total = <<>>
    /\ rd_reqs = <<>>
    /\ rd_old = 0
    /\ rd_exc = NoExc
    /\ rd_result = RdNoResult

(* ---------------------------------------------------------------------- *)
(* Specification SpecReadings: one call of client.get_sensor_readings      *)
(* ---------------------------------------------------------------------- *)
RdInit ==
    /\ rd_pc = "token"
    /\ rd_attempt = 1
    /\ rd_elapsed = 0
    /\ rd_token = None
    /\ rd_ntok = 0
    /\ rd_prev = None
    /\ rd_page = 0
    /\ rd_total = <<>>
    /\ rd_reqs = <<>>
    /\ rd_old = 0
    /\ rd_exc = NoExc
    /\ rd_result = RdNoResult

RdGetToken_mut ==
    /\ rd_pc = "token"
    /\ \E resp \in AuthResponses, d \in ReqSeconds :
        LET out == get_token_body(resp) IN
        /\ rd_elapsed' = rd_elapsed + d
        /\ IF out.kind = "return"
           THEN /\ rd_pc' = "page"
                /\ rd_token' = out.value
                /\ rd_exc' = NoExc
           ELSE /\ rd_pc' = "failed"
                /\ rd_token' = None
                /\ rd_exc' = out.exc
    /\ rd_ntok' = rd_ntok + 1
    /\ rd_page' = 1
    /\ rd_reqs' = <<>>
    /\ UNCHANGED <<rd_attempt, rd_prev, rd_old, rd_result, rd_total>>
    /\ RdOthersUnchanged

\* lines 157-173: an attempt starts: token = await get_token(...); the answer
\* is whatever get_token ends with; current_page = 1, total_readings = []
RdGetToken ==
    /\ rd_pc = "token"
    /\ \E resp \in AuthResponses, d \in ReqSeconds :
        LET out == get_token_body(resp) IN
        /\ rd_elapsed' = rd_elapsed + d
        /\ IF out.kind = "return"
           THEN /\ rd_pc' = "page"
                /\ rd_token' = out.value
                /\ rd_exc' = NoExc
           ELSE /\ rd_pc' = "failed"
                /\ rd_token' = None
                /\ rd_exc' = out.exc
    /\ rd_ntok' = rd_ntok + 1
    /\ rd_page' = 1
    /\ rd_total' = <<>>
    /\ rd_reqs' = <<>>
    /\ UNCHANGED <<rd_attempt, rd_prev, rd_old, rd_result>>
    /\ RdOthersUnchanged

\* lines 175-211: one turn of the paging loop, and after the last page the
\* grouping of the readings
RdPage ==
    /\ rd_pc = "page"
    /\ rd_page <= MaxPages
    /\ \E resp \in ReadingsResponses(rd_page) :
        /\ rd_reqs' = Append(rd_reqs, [page |-> rd_page, token |-> rd_token,
                                        attempt |-> rd_attempt, resp |-> resp])
        /\ IF resp.kind = "transport"
           THEN /\ rd_pc' = "failed"
                /\ rd_exc' = Exc("TransportError", 0)
                /\ UNCHANGED <<rd_page, rd_total, rd_result>>
           ELSE IF IsErrorStatus(resp)
           THEN /\ rd_pc' = "failed"
                /\ rd_exc' = classify_status(resp.status)
                /\ UNCHANGED <<rd_page, rd_total, rd_result>>
           ELSE IF resp.json = "falsy"
           THEN /\ rd_pc' = "returned"
                /\ rd_result' = RdText(resp.text)
                /\ UNCHANGED <<rd_page, rd_total, rd_exc>>
           ELSE IF resp.json = "nodata"
           THEN /\ rd_pc' = "failed"
                /\ rd_exc' = Exc("ValidationError", 0)
                /\ UNCHANGED <<rd_page, rd_total, rd_result>>
           ELSE /\ rd_total' = rd_total \o resp.readings
                /\ IF has_more_pages(resp.last_page, rd_page)
                   THEN /\ rd_page' = rd_page + 1
                        /\ rd_pc' = "page"
                        /\ UNCHANGED <<rd_result, rd_exc>>
                   ELSE /\ rd_pc' = "returned"
                        /\ rd_result' = RdGrouped(group_readings(rd_total'))
                        /\ UNCHANGED <<rd_page, rd_exc>>
    /\ UNCHANGED <<rd_attempt, rd_elapsed, rd_token, rd_ntok, rd_prev, rd_old>>
    /\ RdOthersUnchanged

\* the retry wrapper lets the exception through to the caller
RdPropagate ==
    /\ rd_pc = "failed"
    /\ \/ ~retry_on_unauthorized(rd_exc)
       \/ StaminaStop(rd_attempt, rd_elapsed)
    /\ rd_pc' = "raised"
    /\ rd_result' = RdRaised(rd_exc)
    /\ UNCHANGED <<rd_attempt, rd_elapsed, rd_token, rd_ntok, rd_prev, rd_page,
                   rd_total, rd_reqs, rd_old, rd_exc>>
    /\ RdOthersUnchanged

\* the retry wrapper waits and calls the function again
RdRetry ==
    /\ rd_pc = "failed"
    /\ retry_on_unauthorized(rd_exc)
    /\ ~StaminaStop(rd_attempt, rd_elapsed)
    /\ \E j \in JitterSeconds :
        rd_elapsed' = rd_elapsed + StaminaBackoff(rd_attempt, j)
    /\ rd_attempt' = rd_attempt + 1
    /\ rd_old' = rd_old + Len(rd_reqs)
    /\ rd_prev' = rd_token
    /\ rd_pc' = "token"
    /\ UNCHANGED <<rd_token, rd_ntok, rd_page, rd_total, rd_reqs, rd_exc, rd_result>>
    /\ RdOthersUnchanged

(* ---------------------------------------------------------------------- *)
(* client.get_projects with its retry wrapper                              *)
(* ---------------------------------------------------------------------- *)
StartClock == 16 * Day

PrNoResult == [kind |-> "", catalog |-> CatZero, text |-> "", exc |-> NoExc]

PrIdle ==
    /\ pr_pc = "idle"
    /\ pr_attempt = 0
    /\ pr_elapsed = 0
    /\ pr_token = None
    /\ pr_ntok = 0
    /\ pr_prev = None
    /\ pr_reqs = <<>>
    /\ pr_exc = NoExc
    /\ pr_result = PrNoResult

PrInit ==
    /\ pr_pc = "token"
    /\ pr_attempt = 1
    /\ pr_elapsed = 0
    /\ pr_token = None
    /\ pr_ntok = 0
    /\ pr_prev = None
    /\ pr_reqs = <<>>
    /\ pr_exc = NoExc
    /\ pr_result = PrNoResult

\* lines 129-132: an attempt starts: token = await get_token(...); the answer
\* is whatever get_token ends with
PrGetToken ==
    /\ pr_pc = "token"
    /\ \E resp \in AuthResponses, d \in ReqSeconds :
        LET out == get_token_body(resp) IN
        /\ pr_elapsed' = pr_elapsed + d
        /\ IF out.kind = "return"
           THEN /\ pr_pc' = "get"
                /\ pr_token' = out.value
                /\ pr_exc' = NoExc
           ELSE /\ pr_pc' = "failed"
                /\ pr_token' = None
                /\ pr_exc' = get_projects_body(out, ConfigTransportFailure).exc
    /\ pr_ntok' = pr_ntok + 1
    /\ UNCHANGED <<pr_attempt, pr_prev, pr_reqs, pr_result>>
    /\ PrOthersUnchanged

\* lines 136-152: the request of /config-packet and what the attempt makes
\* of its answer
PrGet ==
    /\ pr_pc = "get"
    /\ \E resp \in ConfigResponses(StartClock), d \in ReqSeconds :
        LET out == get_projects_body(Returned(pr_token), resp) IN
        /\ pr_elapsed' = pr_elapsed + d
        /\ pr_reqs' = Append(pr_reqs, [token |-> pr_token, attempt |-> pr_attempt,
                                        resp |-> resp])
        /\ IF out.kind = "raise"
           THEN /\ pr_pc' = "failed"
                /\ pr_exc' = out.exc
                /\ pr_result' = pr_result
           ELSE /\ pr_pc' = "returned"
                /\ pr_exc' = NoExc
                /\ pr_result' = out
    /\ UNCHANGED <<pr_attempt, pr_token, pr_ntok, pr_prev>>
    /\ PrOthersUnchanged

\* the retry wrapper lets the exception through to the caller
PrPropagate ==
    /\ pr_pc = "failed"
    /\ \/ ~retry_on_unauthorized(pr_exc)
       \/ StaminaStop(pr_attempt, pr_elapsed)
    /\ pr_pc' = "raised"
    /\ pr_result' = PrRaised(pr_exc)
    /\ UNCHANGED <<pr_attempt, pr_elapsed, pr_token, pr_ntok, pr_prev, pr_reqs, pr_exc>>
    /\ PrOthersUnchanged

\* the retry wrapper waits and calls the function again
PrRetry ==
    /\ pr_pc = "failed"
    /\ retry_on_unauthorized(pr_exc)
    /\ ~StaminaStop(pr_attempt, pr_elapsed)
    /\ \E j \in JitterSeconds :
        pr_elapsed' = pr_elapsed + StaminaBackoff(pr_attempt, j)
    /\ pr_attempt' = pr_attempt + 1
    /\ pr_prev' = pr_token
    /\ pr_pc' = "token"
    /\ UNCHANGED <<pr_token, pr_ntok, pr_reqs, pr_exc, pr_result>>
    /\ PrOthersUnchanged

(* ---------------------------------------------------------------------- *)
(* Specification Spec: runs of handlers.action_pull_observations           *)
(* ---------------------------------------------------------------------- *)

\* the local variables of one run
PullIdle ==
    [pc |-> "idle", run |-> 0, lookback |-> 0, fetched |-> PrText(""), now |-> 0,
     work |-> <<>>, idx |-> 0, device_state |-> NoState, start_date |-> 0,
     stop_date |-> 0, pairs |-> <<>>, sensors_triggered |-> 0, result |-> PullNoResult]

\* the names of two runs of action_pull_observations that overlap in time
CoRuns == {1, 2}
\* no overlapping runs are started
CoOff == [r \in CoRuns |-> [PullIdle EXCEPT !.pc = "off"]]

\* the scheduler never invokes action_pull_observations
PlIdle ==
    /\ clock = 0
    /\ store = [id \in SensorIds |-> NoState]
    /\ tasks = <<>>
    /\ trace = <<>>
    /\ nruns = 0
    /\ pull = [PullIdle EXCEPT !.pc = "off"]
    /\ runs = CoOff

\* what the store may hold for a sensor when the first run starts: nothing,
\* or an updated_at written before, in the past or ahead of the clock
StoredBefore == {NoState, State(<<TimePart(StartClock - 3 * Day)>>),
                 State(<<TimePart(StartClock + 2 * Day)>>)}

PlInit ==
    /\ clock = StartClock
    /\ store \in {st \in [SensorIds -> StoredBefore] :
                     \A id \in {"x1", "x2"} : st[id] = NoState}
    /\ tasks = <<>>
    /\ trace = <<>>
    /\ nruns = 0
    /\ pull = PullIdle
    /\ runs = CoOff

Event(op, sensor, arg) ==
    [op |-> op, run |-> pull.run, sensor |-> sensor.id, name |-> sensor.name, arg |-> arg]

\* the run ends by raising exc
PullRaise_mut(exc) ==
    pull' = IF pull.idx < Len(pull.work)
            THEN [pull EXCEPT !.idx = @ + 1, !.pc = "get_state"]
            ELSE [pull EXCEPT !.pc = "returned",
                              !.result = PullReturned(pull.sensors_triggered)]
PullRaise(exc) == pull' = [pull EXCEPT !.pc = "raised", !.result = PullRaised(exc)]

\* the scheduler invokes the action with its configuration
PullStart ==
    /\ pull.pc \in {"idle", "returned", "raised"}
    /\ nruns < MaxRuns
    /\ nruns' = nruns + 1
    /\ \E lb \in LookbackDays :
        pull' = [PullIdle EXCEPT !.pc = "get_projects", !.run = nruns + 1, !.lookback = lb]
    /\ UNCHANGED <<clock, store, tasks, trace>>
    /\ PlOthersUnchanged

\* lines 83-88 and 143-146: projects = await client.get_projects(...)
PullGetProjects ==
    /\ pull.pc = "get_projects"
    /\ \E d \in 0..MaxStep, out \in GetProjectsOutcomes(clock) :
        /\ clock' = clock + d
        /\ IF out.kind = "raise"
           THEN pull' = [pull EXCEPT !.pc = "raised", !.fetched = out,
                                     !.result = PullRaised(out.exc)]
           ELSE IF out.kind = "text"
           THEN IF Truthy(Str(out.text))
                THEN pull' = [pull EXCEPT !.pc = "raised", !.fetched = out,
                                          !.result = PullRaised(Exc("AttributeError", 0))]
                ELSE pull' = [pull EXCEPT !.pc = "returned", !.fetched = out,
                                          !.result = PullReturned(0)]
           ELSE LET work == CatalogWork(out.catalog.projects) IN
                pull' = [pull EXCEPT
                            !.fetched = out,
                            !.now = clock',
                            !.sensors_triggered = 0,
                            !.work = work,
                            !.idx = 1,
                            !.pc = IF work = <<>> THEN "returned" ELSE "get_state",
                            !.result = IF work = <<>> THEN PullReturned(0) ELSE @]
    /\ UNCHANGED <<store, tasks, trace, nruns>>
    /\ PlOthersUnchanged

PullSensor == pull.work[pull.idx].sensor

\* lines 105-120: device_state = await state_manager.get_state(...), then
\* start_date, stop_date and the windows
PullGetState ==
    /\ pull.pc = "get_state"
    /\ \E d \in 0..MaxStep :
        LET device_state == store[PullSensor.id]
            start == start_date(device_state, pull.now, pull.lookback)
            pairs == generate_date_pairs(start.at, clock + d)
        IN
        /\ clock' = clock + d
        /\ trace' = Append(trace, Event("get_state", PullSensor, 0))
        /\ IF ~start.ok
           THEN pull' = [pull EXCEPT !.pc = "raised", !.device_state = device_state,
                                     !.result = PullRaised(Exc("AttributeError", 0))]
           ELSE pull' = [pull EXCEPT
                            !.device_state = device_state,
                            !.start_date = start.at,
                            !.stop_date = clock',
                            !.pairs = pairs,
                            !.pc = IF pairs = <<>> THEN "set_state" ELSE "dispatch"]
    /\ UNCHANGED <<store, tasks, nruns>>
    /\ PlOthersUnchanged

PullDispatch_mut ==
    /\ pull.pc = "dispatch"
    /\ PullRaise(Exc("ValidationError", 0))
    /\ store' = [store EXCEPT ![PullSensor.id] = State(latest_time(PullSensor).value)]
    /\ UNCHANGED <<clock, tasks, trace, nruns>>
    /\ PlOthersUnchanged

\* lines 120-130: one turn of the window loop: build the config, await
\* trigger_action(...), count it
PullDispatch ==
    /\ pull.pc = "dispatch"
    /\ LET window == Head(pull.pairs)
           parsed_config == parse_config(ConfigPassedFields, window.lower, window.upper,
                                         pull.work[pull.idx], <<>>)
       IN
       IF ~parsed_config.ok
       THEN /\ PullRaise(Exc("ValidationError", 0))
            /\ UNCHANGED <<clock, tasks, trace>>
       ELSE \E d \in 0..MaxStep :
            /\ clock' = clock + d
            /\ tasks' = Append(tasks, parsed_config)
            /\ trace' = Append(trace, Event("trigger_action", PullSensor, Len(tasks) + 1))
            /\ pull' = [pull EXCEPT
                           !.sensors_triggered = @ + 1,
                           !.pairs = Tail(@),
                           !.pc = IF Tail(pull.pairs) = <<>> THEN "set_state" ELSE "dispatch"]
    /\ UNCHANGED <<store, nruns>>
    /\ PlOthersUnchanged

\* lines 132-143: the new watermark, await state_manager.set_state(...), and
\* the next sensor or the return
PullSetState ==
    /\ pull.pc = "set_state"
    /\ LET latest == latest_time(PullSensor) IN
       IF ~latest.ok
       THEN /\ PullRaise(latest.exc)
            /\ UNCHANGED <<clock, store, trace>>
       ELSE \E d \in 0..MaxStep :
            /\ clock' = clock + d
            /\ store' = [store EXCEPT ![PullSensor.id] = State(latest.value)]
            /\ trace' = Append(trace, Event("set_state", PullSensor, 0))
            /\ IF pull.idx < Len(pull.work)
               THEN pull' = [pull EXCEPT !.idx = @ + 1, !.pc = "get_state"]
               ELSE pull' = [pull EXCEPT !.pc = "returned",
                                         !.result = PullReturned(pull.sensors_triggered)]
    /\ UNCHANGED <<tasks, nruns>>
    /\ PlOthersUnchanged

(* ---------------------------------------------------------------------- *)
(* Specification SpecOverlap: two runs of action_pull_observations that    *)
(* overlap in time (the scheduler does not wait for a run to end); a run   *)
(* gives way to the other one at each await                                *)
(* ---------------------------------------------------------------------- *)
\* what the store holds for sensor s1 when the two runs start
CoInit ==
    /\ clock = StartClock
    /\ store \in {st \in [SensorIds -> StoredBefore] :
                     \A id \in SensorIds \ {"s1"} : st[id] = NoState}
    /\ tasks = <<>>
    /\ trace = <<>>
    /\ nruns = 0
    /\ pull = [PullIdle EXCEPT !.pc = "off"]
    /\ runs = [r \in CoRuns |-> PullIdle]

CoEvent(r, op, sensor, arg) ==
    [op |-> op, run |-> r, sensor |-> sensor.id, name |-> sensor.name, arg |-> arg]

\* run r ends by raising exc
CoRaise(r, exc) ==
    runs' = [runs EXCEPT ![r] = [@ EXCEPT !.pc = "raised", !.result = PullRaised(exc)]]

\* the scheduler invokes run r; both runs get the integration's one
\* configuration of the action
CoStart(r) ==
    /\ runs[r].pc = "idle"
    /\ \E lb \in {l \in LookbackDays :
                    \A q \in CoRuns : runs[q].pc # "idle" => runs[q].lookback = l} :
        runs' = [runs EXCEPT ![r] = [PullIdle EXCEPT !.pc = "get_projects", !.run = r,
                                                       !.lookback = lb]]
    /\ UNCHANGED <<clock, store, tasks, trace>>
    /\ CoOthersUnchanged

\* lines 83-88 and 143-146 in run r
CoGetProjects(r) ==
    /\ runs[r].pc = "get_projects"
    /\ \E d \in 0..MaxStep, out \in GetProjectsOutcomes(clock) :
        /\ clock' = clock + d
        /\ IF out.kind = "raise"
           THEN runs' = [runs EXCEPT ![r] = [@ EXCEPT !.pc = "raised", !.fetched = out,
                                                      !.result = PullRaised(out.exc)]]
           ELSE IF out.kind = "text"
           THEN IF Truthy(Str(out.text))
                THEN runs' = [runs EXCEPT ![r] =
                                [@ EXCEPT !.pc = "raised", !.fetched = out,
                                          !.result = PullRaised(Exc("AttributeError", 0))]]
                ELSE runs' = [runs EXCEPT ![r] =
                                [@ EXCEPT !.pc = "returned", !.fetched = out,
                                          !.result = PullReturned(0)]]
           ELSE LET work == CatalogWork(out.catalog.projects) IN
                runs' = [runs EXCEPT ![r] =
                            [@ EXCEPT
                                !.fetched = out,
                                !.now = clock',
                                !.sensors_triggered = 0,
                                !.work = work,
                                !.idx = 1,
                                !.pc = IF work = <<>> THEN "returned" ELSE "get_state",
                                !.result = IF work = <<>> THEN PullReturned(0) ELSE @]]
    /\ UNCHANGED <<store, tasks, trace>>
    /\ CoOthersUnchanged

CoSensor(r) == runs[r].work[runs[r].idx].sensor

\* lines 105-120 in run r
CoGetState(r) ==
    /\ runs[r].pc = "get_state"
    /\ \E d \in 0..MaxStep :
        LET device_state == store[CoSensor(r).id]
            start == start_date(device_state, runs[r].now, runs[r].lookback)
            pairs == generate_date_pairs(start.at, clock + d)
        IN
        /\ clock' = clock + d
        /\ trace' = Append(trace, CoEvent(r, "get_state", CoSensor(r), 0))
        /\ IF ~start.ok
           THEN runs' = [runs EXCEPT ![r] =
                            [@ EXCEPT !.pc = "raised", !.device_state = device_state,
                                      !.result = PullRaised(Exc("AttributeError", 0))]]
           ELSE runs' = [runs EXCEPT ![r] =
                            [@ EXCEPT
                                !.device_state = device_state,
                                !.start_date = start.at,
                                !.stop_date = clock',
                                !.pairs = pairs,
                                !.pc = IF pairs = <<>> THEN "set_state" ELSE "dispatch"]]
    /\ UNCHANGED <<store, tasks>>
    /\ CoOthersUnchanged

\* lines 120-130 in run r
CoDispatch(r) ==
    /\ runs[r].pc = "dispatch"
    /\ LET window == Head(runs[r].pairs)
           parsed_config == parse_config(ConfigPassedFields, window.lower, window.upper,
                                         runs[r].work[runs[r].idx], <<>>)
       IN
       IF ~parsed_config.ok
       THEN /\ CoRaise(r, Exc("ValidationError", 0))
            /\ UNCHANGED <<clock, tasks, trace>>
       ELSE \E d \in 0..MaxStep :
            /\ clock' = clock + d
            /\ tasks' = Append(tasks, parsed_config)
            /\ trace' = Append(trace, CoEvent(r, "trigger_action", CoSensor(r),
                                              Len(tasks) + 1))
            /\ runs' = [runs EXCEPT ![r] =
                          [@ EXCEPT
                              !.sensors_triggered = @ + 1,
                              !.pairs = Tail(@),
                              !.pc = IF Tail(runs[r].pairs) = <<>>
                                     THEN "set_state" ELSE "dispatch"]]
    /\ UNCHANGED store
    /\ CoOthersUnchanged

\* lines 132-143 in run r
CoSetState(r) ==
    /\ runs[r].pc = "set_state"
    /\ LET latest == latest_time(CoSensor(r)) IN
       IF ~latest.ok
       THEN /\ CoRaise(r, latest.exc)
            /\ UNCHANGED <<clock, store, trace>>
       ELSE \E d \in 0..MaxStep :
            /\ clock' = clock + d
            /\ store' = [store EXCEPT ![CoSensor(r).id] = State(latest.value)]
            /\ trace' = Append(trace, CoEvent(r, "set_state", CoSensor(r), 0))
            /\ IF runs[r].idx < Len(runs[r].work)
               THEN runs' = [runs EXCEPT ![r] = [@ EXCEPT !.idx = @ + 1, !.pc = "get_state"]]
               ELSE runs' = [runs EXCEPT ![r] =
                               [@ EXCEPT !.pc = "returned",
                                         !.result = PullReturned(runs[r].sensors_triggered)]]
    /\ UNCHANGED tasks
    /\ CoOthersUnchanged

(* ---------------------------------------------------------------------- *)
(* Specification SpecPairs, continued                                      *)
(* ---------------------------------------------------------------------- *)
\* list(generate_date_pairs(lower, upper))
GpCall ==
    /\ gp_pc = "call"
    /\ gp_pairs' = generate_date_pairs(gp_lower, gp_upper)
    /\ gp_pc' = "done"
    /\ UNCHANGED <<gp_lower, gp_upper>>
    /\ GpOthersUnchanged

(* ---------------------------------------------------------------------- *)
(* handlers.transform and the snapshot a sub-task carries                  *)
(* ---------------------------------------------------------------------- *)
\* action_config.sensor["channels"][i] and action_config.units[i]
SnapChannel(id, name, unit_id, health) ==
    [id |-> id, name |-> name, unit_id |-> unit_id, health |-> health]
Unit(id, unit) == [id |-> id, unit |-> unit]

\* the action_config of the sub-task: station, sensor, units
Snapshot ==
    [station |-> [station_name |-> "St1", station_latitude |-> 2, station_longitude |-> 1],
     sensor |-> [id |-> "s1", name |-> "S1",
                 channels |-> <<SnapChannel("c1", "Temp", "7", 90),
                                SnapChannel("c2", "Wind", "8", 80)>>],
     units |-> <<Unit("7", "C")>>]

\* next((channel for channel in sensor['channels'] if channel['id'] == id), None)
RECURSIVE FindChannel(_, _)
FindChannel(channels, id) ==
    IF channels = <<>> THEN [found |-> FALSE, channel |-> SnapChannel("", "", "", 0)]
    ELSE IF Head(channels).id = id THEN [found |-> TRUE, channel |-> Head(channels)]
    ELSE FindChannel(Tail(channels), id)

\* next((unit['unit'] for unit in units if str(unit['id']) == unit_id), '')
FindUnit_mut(units, unit_id) == IF units = <<>> THEN "" ELSE Head(units).unit
RECURSIVE FindUnit(_, _)
FindUnit(units, unit_id) ==
    IF units = <<>> THEN ""
    ELSE IF Head(units).id = unit_id THEN Head(units).unit
    ELSE FindUnit(Tail(units), unit_id)

\* dict.update with one key: the value of an existing key is replaced in
\* place, a new key goes to the end
DictSet(entries, key, value) ==
    IF \E i \in 1..Len(entries) : entries[i].key = key
    THEN [i \in 1..Len(entries) |->
            IF entries[i].key = key THEN [key |-> key, value |-> value] ELSE entries[i]]
    ELSE Append(entries, [key |-> key, value |-> value])

\* lines 33-43: readings_additional after the loop over the readings; ok is
\* FALSE when a reading's channel is not in the snapshot (channel_info is
\* None and channel_info['name'] raises TypeError)
RECURSIVE ReadingsAdditional(_, _, _)
ReadingsAdditional(station_sensor, readings, acc) ==
    IF readings = <<>> THEN [ok |-> TRUE, entries |-> acc]
    ELSE LET reading == Head(readings)
             info == FindChannel(station_sensor.sensor.channels, reading.channel_id)
             channel_info == info.channel
         IN
         IF ~info.found THEN [ok |-> FALSE, entries |-> acc]
         ELSE ReadingsAdditional(station_sensor, Tail(readings),
                DictSet(DictSet(acc, <<channel_info.name>>,
                                <<reading.reading, FindUnit(station_sensor.units,
                                                            channel_info.unit_id)>>),
                        <<channel_info.name, "Health">>,
                        <<channel_info.health, "%">>))

\* lines 29-56
transform(station_sensor, timestamp, readings) ==
    LET additional == ReadingsAdditional(station_sensor, readings, <<>>) IN
    [ok |-> additional.ok,
     observation |->
        [source_name |-> <<station_sensor.station.station_name, station_sensor.sensor.name>>,
         source |-> station_sensor.sensor.id,
         type |-> "stationary-object",
         subtype |-> "weather_station",
         recorded_at |-> timestamp,
         location |-> [lat |-> station_sensor.station.station_latitude,
                       lon |-> station_sensor.station.station_longitude],
         additional |-> additional.entries]]

(* ---------------------------------------------------------------------- *)
(* handlers.action_pull_sensor_observations_per_station                    *)
(* ---------------------------------------------------------------------- *)
\* generate_batches(transformed_data, 200): the batch size
BATCH_SIZE == 200

\* app.services.utils.generate_batches: consecutive slices of n items, the
\* last one holding the rest
RECURSIVE generate_batches(_, _)
generate_batches(iterable, n) ==
    IF iterable = <<>> THEN <<>>
    ELSE <<SubSeq(iterable, 1, Min(n, Len(iterable)))>>
         \o generate_batches(SubSeq(iterable, n + 1, Len(iterable)), n)

\* a grouped result with n timestamps, one reading of channel c1 at each
GroupsOf(n) ==
    [i \in 1..n |->
        [timestamp |-> RawTime(i, "utc"),
         readings |-> <<ChannelReading("c1", 10, RawTime(i, "utc"))>>]]
\* a grouped result with a reading of a channel the snapshot does not list
StrayGroups ==
    <<[timestamp |-> RawTime(1, "utc"),
       readings |-> <<ChannelReading("c1", 10, RawTime(1, "utc")),
                      ChannelReading("c2", 20, RawTime(1, "utc")),
                      ChannelReading("c1", 11, RawTime(1, "utc"))>>],
      [timestamp |-> RawTime(2, "utc"),
       readings |-> <<ChannelReading("c9", 30, RawTime(2, "utc"))>>]>>
NamedGroups == <<StrayGroups[1]>>

\* the sizes of the grouped results drawn
GroupCounts == {0, 1, 2, 199, 200, 201, 400, 450}

\* everything get_sensor_readings can end with
ReadingsExceptions ==
    {get_token_body(a).exc : a \in {r \in AuthResponses : get_token_body(r).kind = "raise"}}
    \cup {classify_status(st) : st \in ErrorStatuses}
    \cup {Exc("TransportError", 0), Exc("ValidationError", 0)}
GetReadingsOutcomes ==
    {RdGrouped(GroupsOf(n)) : n \in GroupCounts}
    \cup {RdGrouped(StrayGroups), RdGrouped(NamedGroups), RdText("{}")}
    \cup {RdRaised(e) : e \in ReadingsExceptions}

\* bool(sensor_observations): a dict is truthy when it has a key, a str when
\* it is not empty
observations_truthy(out) ==
    IF out.kind = "grouped" THEN out.groups # <<>> ELSE Truthy(Str(out.text))

\* lines 167-173: transformed_data, or the TypeError of transform
transform_all(station_sensor, groups) ==
    LET each == [i \in 1..Len(groups) |->
                    transform(station_sensor, groups[i].timestamp, groups[i].readings)]
    IN [ok |-> \A i \in 1..Len(groups) : each[i].ok,
        data |-> [i \in 1..Len(groups) |-> each[i].observation]]

\* line 178: observations_extracted += len(response)
add_extracted_mut(observations_extracted, batch, response) ==
    observations_extracted + Len(batch)
add_extracted(observations_extracted, batch, response) ==
    observations_extracted + Len(response)

\* send_observations_to_gundi: the list it returns has one item per
\* observation the sink accepted
SinkResponses(batch) ==
    {SubSeq(batch, 1, k) : k \in {0, 1, Len(batch) - 1, Len(batch)} \cap 0..Len(batch)}

SnReturned(n) == [kind |-> "return", observations_extracted |-> n, exc |-> NoExc]
SnRaised(exc) == [kind |-> "raise", observations_extracted |-> 0, exc |-> exc]
SnNoResult == [kind |-> "", observations_extracted |-> 0, exc |-> NoExc]

SnIdle ==
    /\ sn_pc = "idle"
    /\ sn_fetched = RdNoResult
    /\ sn_data = <<>>
    /\ sn_batches = <<>>
    /\ sn_sent = <<>>
    /\ sn_extracted = 0
    /\ sn_result = SnNoResult

\* line 162: observations_extracted = 0
SnInit ==
    /\ sn_pc = "fetch"
    /\ sn_fetched = RdNoResult
    /\ sn_data = <<>>
    /\ sn_batches = <<>>
    /\ sn_sent = <<>>
    /\ sn_extracted = 0
    /\ sn_result = SnNoResult

\* lines 164-175 and 181-191: the fetch, the transformation and the batches
SnFetch ==
    /\ sn_pc = "fetch"
    /\ \E out \in GetReadingsOutcomes :
        /\ sn_fetched' = out
        /\ IF out.kind = "raise"
           THEN /\ sn_pc' = "raised"
                /\ sn_result' = SnRaised(out.exc)
                /\ UNCHANGED <<sn_data, sn_batches>>
           ELSE IF ~observations_truthy(out)
           THEN /\ sn_pc' = "returned"
                /\ sn_result' = SnReturned(0)
                /\ UNCHANGED <<sn_data, sn_batches>>
           ELSE IF out.kind = "text"
           THEN /\ sn_pc' = "raised"
                /\ sn_result' = SnRaised(Exc("AttributeError", 0))
                /\ UNCHANGED <<sn_data, sn_batches>>
           ELSE LET transformed == transform_all(Snapshot, out.groups) IN
                IF ~transformed.ok
                THEN /\ sn_pc' = "raised"
                     /\ sn_result' = SnRaised(Exc("TypeError", 0))
                     /\ UNCHANGED <<sn_data, sn_batches>>
                ELSE /\ sn_data' = transformed.data
                     /\ sn_batches' = generate_batches(transformed.data, BATCH_SIZE)
                     /\ sn_pc' = "send"
                     /\ sn_result' = sn_result
    /\ UNCHANGED <<sn_sent, sn_extracted>>
    /\ SnOthersUnchanged

\* lines 175-180: one turn of the batch loop, and the return after the last
SnSend ==
    /\ sn_pc = "send"
    /\ LET batch == Head(sn_batches) IN
       \/ \E response \in SinkResponses(batch) :
            /\ sn_sent' = Append(sn_sent, [batch |-> batch, accepted |-> Len(response)])
            /\ sn_extracted' = add_extracted(sn_extracted, batch, response)
            /\ sn_batches' = Tail(sn_batches)
            /\ IF Tail(sn_batches) = <<>>
               THEN /\ sn_pc' = "returned"
                    /\ sn_result' = SnReturned(sn_extracted')
               ELSE /\ sn_pc' = "send"
                    /\ sn_result' = sn_result
       \/ /\ sn_sent' = Append(sn_sent, [batch |-> batch, accepted |-> 0])
          /\ sn_pc' = "raised"
          /\ sn_result' = SnRaised(Exc("HTTPStatusError", 500))
          /\ UNCHANGED <<sn_extracted, sn_batches>>
    /\ UNCHANGED <<sn_fetched, sn_data>>
    /\ SnOthersUnchanged

(* ---------------------------------------------------------------------- *)
(* handlers.action_auth                                                    *)
(* ---------------------------------------------------------------------- *)
\* the dict action_auth returns: valid_credentials is "True", "False" or ""
\* (no such key), status_code is 0 when the dict has no such key
AuthDict(valid_credentials, error, status_code, message) ==
    [kind |-> "return", valid_credentials |-> valid_credentials, error |-> error,
     status_code |-> status_code, message |-> message, exc |-> NoExc]
AuthRaised(exc) ==
    [kind |-> "raise", valid_credentials |-> "", error |-> FALSE, status_code |-> 0,
     message |-> "", exc |-> exc]
AuthNoResult ==
    [kind |-> "", valid_credentials |-> "", error |-> FALSE, status_code |-> 0,
     message |-> "", exc |-> NoExc]

\* lines 64-73, given what get_token ended with
action_auth_result_mut(token_out) ==
    IF token_out.kind = "return"
    THEN IF ~Truthy(token_out.value)
         THEN AuthDict("False", FALSE, 0, "Bad credentials")
         ELSE AuthDict("True", FALSE, 0, "")
    ELSE IF token_out.exc.type = "HTTPStatusError"
    THEN AuthDict("", TRUE, token_out.exc.status_code, "")
    ELSE AuthRaised(token_out.exc)
action_auth_result(token_out) ==
    IF token_out.kind = "return"
    THEN IF ~Truthy(token_out.value)
         THEN AuthDict("False", FALSE, 0, "Bad credentials")
         ELSE AuthDict("True", FALSE, 0, "")
    ELSE IF token_out.exc.type = "StevensConnectBadRequestException"
    THEN AuthDict("False", FALSE, token_out.exc.status_code, "Bad credentials")
    ELSE IF token_out.exc.type = "HTTPStatusError"
    THEN AuthDict("", TRUE, token_out.exc.status_code, "")
    ELSE AuthRaised(token_out.exc)

AuIdle ==
    /\ au_pc = "idle"
    /\ au_result = AuthNoResult

\* line 65: response = await client.get_token(...) is in progress
AuInit ==
    /\ au_pc = "token"
    /\ au_result = AuthNoResult

\* lines 66-73: get_token has ended and action_auth answers
AuthFinish ==
    /\ au_pc = "token"
    /\ tk_pc \in {"returned", "raised"}
    /\ au_result' = action_auth_result(tk_result)
    /\ au_pc' = IF au_result'.kind = "raise" THEN "raised" ELSE "returned"
    /\ UNCHANGED tk_vars
    /\ AuOthersUnchanged

(* ---------------------------------------------------------------------- *)
(* Specifications                                                          *)
(* ---------------------------------------------------------------------- *)
InitPairs == GpInit /\ TkIdle /\ RdIdle /\ PrIdle /\ PlIdle /\ SnIdle /\ AuIdle
NextPairs == GpCall
SpecPairs == InitPairs /\ [][NextPairs]_vars

InitToken == TkInit /\ GpIdle /\ RdIdle /\ PrIdle /\ PlIdle /\ SnIdle /\ AuIdle
NextToken == TkPost \/ TkPropagate \/ TkRetry
SpecToken == InitToken /\ [][NextToken]_vars

Init == PlInit /\ GpIdle /\ TkIdle /\ RdIdle /\ PrIdle /\ SnIdle /\ AuIdle
Next == PullStart \/ PullGetProjects \/ PullGetState \/ PullDispatch \/ PullSetState
Spec == Init /\ [][Next]_vars

InitReadings == RdInit /\ GpIdle /\ TkIdle /\ PrIdle /\ PlIdle /\ SnIdle /\ AuIdle
NextReadings == RdGetToken \/ RdPage \/ RdPropagate \/ RdRetry
SpecReadings == InitReadings /\ [][NextReadings]_vars

\* two overlapping runs of action_pull_observations
InitOverlap == CoInit /\ GpIdle /\ TkIdle /\ RdIdle /\ PrIdle /\ SnIdle /\ AuIdle
NextOverlap ==
    \E r \in CoRuns :
        \/ CoStart(r) \/ CoGetProjects(r) \/ CoGetState(r) \/ CoDispatch(r) \/ CoSetState(r)
SpecOverlap == InitOverlap /\ [][NextOverlap]_vars

\* one call of get_projects or one call of get_sensor_readings
InitClient ==
    /\ GpIdle /\ TkIdle /\ PlIdle /\ SnIdle /\ AuIdle
    /\ \/ PrInit /\ RdIdle
       \/ RdInit /\ PrIdle
NextClient ==
    \/ PrGetToken \/ PrGet \/ PrPropagate \/ PrRetry
    \/ RdGetToken \/ RdPage \/ RdPropagate \/ RdRetry
SpecClient == InitClient /\ [][NextClient]_vars

\* one call of get_token or get_projects that is never abandoned: the event
\* loop resumes the coroutine after every await, each request ends within
\* the session's timeout and each backoff sleep ends
InitRetry ==
    /\ GpIdle /\ RdIdle /\ PlIdle /\ SnIdle /\ AuIdle
    /\ \/ TkInit /\ PrIdle
       \/ PrInit /\ TkIdle
NextRetry ==
    \/ TkPost \/ TkPropagate \/ TkRetry
    \/ PrGetToken \/ PrGet \/ PrPropagate \/ PrRetry
SpecRetry == InitRetry /\ [][NextRetry]_vars /\ WF_vars(NextRetry)

\* one execution of action_pull_sensor_observations_per_station
InitSensor == SnInit /\ GpIdle /\ TkIdle /\ RdIdle /\ PrIdle /\ PlIdle /\ AuIdle
NextSensor == SnFetch \/ SnSend
SpecSensor == InitSensor /\ [][NextSensor]_vars

\* one execution of action_auth
InitAuth == AuInit /\ TkInit /\ GpIdle /\ RdIdle /\ PrIdle /\ PlIdle /\ SnIdle
NextAuth == TkPost \/ TkPropagate \/ TkRetry \/ AuthFinish
SpecAuth == InitAuth /\ [][NextAuth]_vars

\* one of the three action handlers is executed
InitHandlers ==
    /\ GpIdle /\ RdIdle /\ PrIdle
    /\ \/ AuInit /\ TkInit /\ PlIdle /\ SnIdle
       \/ PlInit /\ TkIdle /\ AuIdle /\ SnIdle
       \/ SnInit /\ TkIdle /\ AuIdle /\ PlIdle
NextHandlers == NextAuth \/ Next \/ NextSensor
SpecHandlers == InitHandlers /\ [][NextHandlers]_vars

(* ---------------------------------------------------------------------- *)
(* C1                                                                      *)
(* ---------------------------------------------------------------------- *)
\* C1: for start < stop the windows of generate_date_pairs come most recent
\* first, the first ends at stop, each later one ends where the previous one
\* begins, the last begins at start, each is non-empty and at most 2 days
\* long; for stop <= start there is no window.
C1_DatePairsPartition ==
    gp_pc = "done" =>
        IF gp_lower < gp_upper
        THEN /\ Len(gp_pairs) >= 1
             /\ gp_pairs[1].upper = gp_upper
             /\ gp_pairs[Len(gp_pairs)].lower = gp_lower
             /\ \A i \in 1..Len(gp_pairs) :
                    /\ gp_pairs[i].lower < gp_pairs[i].upper
                    /\ gp_pairs[i].upper - gp_pairs[i].lower <= timedelta(MAX_DAYS_PER_QUERY)
             /\ \A i \in 2..Len(gp_pairs) :
                    gp_pairs[i].upper = gp_pairs[i - 1].lower
        ELSE gp_pairs = <<>>

\* several windows, the oldest one shorter than 2 days
C1_Witness ==
    /\ gp_pc = "done"
    /\ Len(gp_pairs) >= 3
    /\ gp_pairs[Len(gp_pairs)].upper - gp_pairs[Len(gp_pairs)].lower < timedelta(MAX_DAYS_PER_QUERY)

(* ---------------------------------------------------------------------- *)
(* C9, C10: get_token                                                      *)
(* ---------------------------------------------------------------------- *)
TkLast == tk_hist[Len(tk_hist)]
TkAnswered == Len(tk_hist) > 0 /\ tk_pc # "post"
TkOtherError(resp) ==
    \/ resp.kind = "transport"
    \/ resp.kind = "http" /\ IsErrorStatus(resp) /\ resp.status \notin {400, 404}

\* C9: get_token returns the token string of the envelope when /authenticate
\* succeeds; a 400 answer is raised as StevensConnectBadRequestException and
\* a 404 answer as StevensConnectNotFoundException, never as the raw httpx
\* status error; any other HTTP error status reaches the caller as the raw
\* HTTPStatusError.
C9_TokenOrClassifiedError ==
    TkAnswered =>
        /\ TkLast.json = "token" =>
              /\ tk_pc = "returned"
              /\ tk_result = Returned(Str(TkLast.token))
        /\ TkLast.status = 400 =>
              /\ tk_pc \in {"failed", "raised"}
              /\ tk_exc = Exc("StevensConnectBadRequestException", 400)
              /\ tk_pc = "raised" => tk_result = Raised(tk_exc)
        /\ TkLast.status = 404 =>
              /\ tk_pc \in {"failed", "raised"}
              /\ tk_exc = Exc("StevensConnectNotFoundException", 404)
              /\ tk_pc = "raised" => tk_result = Raised(tk_exc)
        /\ (tk_pc = "raised" /\ TkLast.kind = "http" /\ TkOtherError(TkLast)) =>
              tk_result = Raised(Exc("HTTPStatusError", TkLast.status))

\* a 404 answered after an earlier attempt failed, raised as NotFound
C9_Witness ==
    /\ tk_pc = "raised"
    /\ Len(tk_hist) >= 2
    /\ TkLast.status = 404
    /\ tk_result.exc.type = "StevensConnectNotFoundException"

\* C10 as stated: a 400 or 404 answer ends get_token with that single POST,
\* and after any other transport or HTTP-status error a further attempt is
\* made (so get_token never ends on such an error).
C10_Original ==
    /\ \A i \in 1..Len(tk_hist) :
          tk_hist[i].status \in {400, 404} => i = Len(tk_hist)
    /\ tk_pc = "raised" => ~TkOtherError(TkLast)

\* C10 (amended): a 400 or 404 answer is the last POST of the call, the
\* classified error being raised without retry; after any other transport or
\* HTTP-status error get_token gives up only when the retry budget of the
\* wrapper (10 attempts, 45 seconds) is used up, and retries otherwise.
C10_RetryUnlessExhausted ==
    /\ \A i \in 1..Len(tk_hist) :
          tk_hist[i].status \in {400, 404} =>
              /\ i = Len(tk_hist)
              /\ tk_pc \in {"failed", "raised"}
    /\ (tk_pc = "raised" /\ TkOtherError(TkLast)) =>
          StaminaStop(tk_attempt, tk_elapsed)
    /\ (tk_pc = "post" /\ Len(tk_hist) > 0) =>
          /\ TkOtherError(TkLast)
          /\ tk_attempt = Len(tk_hist) + 1

\* a third attempt that was answered 400: raised, and no fourth POST
C10_Witness ==
    /\ tk_pc = "raised"
    /\ Len(tk_hist) = 3
    /\ TkLast.status = 400

(* ---------------------------------------------------------------------- *)
(* C2: paging of get_sensor_readings                                       *)
(* ---------------------------------------------------------------------- *)
RECURSIVE SumLen(_)
SumLen(lists) == IF lists = <<>> THEN 0 ELSE Len(Head(lists)) + SumLen(Tail(lists))

\* the reading count of every channel of every page the attempt fetched
RECURSIVE RdFetchedCount(_)
RdFetchedCount(reqs) ==
    IF reqs = <<>> THEN 0
    ELSE SumLen(Head(reqs).resp.readings) + RdFetchedCount(Tail(reqs))

RECURSIVE RdGroupedCount(_)
RdGroupedCount(groups) ==
    IF groups = <<>> THEN 0
    ELSE Len(Head(groups).readings) + RdGroupedCount(Tail(groups))

RdIsPage(req) == req.resp.kind = "http" /\ req.resp.status = 200 /\ req.resp.json = "data"

\* C2: when the upstream reports last_page > current page on pages 1..k-1 and
\* not on page k, get_sensor_readings requests exactly the pages 1..k, in
\* increasing order, none skipped or repeated, and the grouped result holds as
\* many readings as all channels of all fetched pages together.
C2_PagesAndCount ==
    /\ \A i \in 1..Len(rd_reqs) : rd_reqs[i].page = i
    /\ rd_pc = "page" =>
          /\ rd_page = Len(rd_reqs) + 1
          /\ \A i \in 1..Len(rd_reqs) :
                RdIsPage(rd_reqs[i]) /\ rd_reqs[i].resp.last_page > i
    /\ (rd_pc = "returned" /\ rd_result.kind = "grouped") =>
          LET k == Len(rd_reqs) IN
          /\ k >= 1
          /\ \A i \in 1..k : RdIsPage(rd_reqs[i])
          /\ \A i \in 1..(k - 1) : rd_reqs[i].resp.last_page > i
          /\ rd_reqs[k].resp.last_page <= k
          /\ rd_attempt = 1 => rd_old = 0
          /\ RdGroupedCount(rd_result.groups) = RdFetchedCount(rd_reqs)

\* two pages fetched at the first attempt, readings on several of them
C2_Witness ==
    /\ rd_pc = "returned"
    /\ rd_result.kind = "grouped"
    /\ rd_attempt = 1
    /\ Len(rd_reqs) = 2
    /\ rd_reqs[2].resp.last_page = 2
    /\ RdGroupedCount(rd_result.groups) >= 4

(* ---------------------------------------------------------------------- *)
(* C3 .. C8: action_pull_observations                                      *)
(* ---------------------------------------------------------------------- *)
PullFinished == pull.pc \in {"returned", "raised"}
\* the calls of kind op the current run made, in order
RunEvents(op) == SelectSeq(trace, LAMBDA e : e.run = pull.run /\ e.op = op)
RunTrace == SelectSeq(trace, LAMBDA e : e.run = pull.run)

\* C3: the watermark lookup of a sensor leaves the store as it is, and the
\* window start it yields is now minus the configured lookback days when no
\* watermark is stored, and the stored updated_at, read as UTC, when one is.
C3_StartFromWatermarkOrLookback ==
    [][pull.pc = "get_state" =>
          /\ store' = store
          /\ pull'.pc # "raised" =>
                LET stored == store[PullSensor.id] IN
                IF stored.present
                THEN pull'.start_date = stored.updated_at[1].t
                ELSE pull'.start_date = pull.now - pull.lookback * Day]_vars

\* a lookup that found a stored watermark and took its time as the start
C3_Witness ==
    /\ pull.pc = "dispatch"
    /\ pull.device_state.present
    /\ store[PullSensor.id] = pull.device_state
    /\ pull.start_date = pull.device_state.updated_at[1].t
    /\ pull.start_date # pull.now - pull.lookback * Day

PullOneSensorCatalog ==
    /\ pull.fetched.kind = "catalog"
    /\ Len(pull.fetched.catalog.projects) = 1
    /\ Len(pull.fetched.catalog.projects[1].stations) = 1
    /\ Len(pull.fetched.catalog.projects[1].stations[1].sensors) = 1
    /\ pull.fetched.catalog.projects[1].stations[1].sensors[1].name
          \notin {"Statistics", "Diagnostic Parameters"}

\* C4: with 1 project, 1 station, 1 non-excluded sensor, no stored
\* watermark and a lookback of 7 days the run dispatches exactly 4 sub-tasks
\* and writes the watermark of the sensor exactly once, after the last
\* dispatch.
C4_FourDispatchesThenWrite ==
    (PullFinished /\ PullOneSensorCatalog /\ pull.lookback = 7
        /\ Len(RunEvents("get_state")) = 1 /\ ~pull.device_state.present) =>
        /\ Len(RunEvents("trigger_action")) = 4
        /\ Len(RunEvents("set_state")) = 1
        /\ RunTrace[Len(RunTrace)].op = "set_state"

\* C7: the sensors_triggered a completed run returns is the number of its
\* trigger_action dispatches; with one sensor, no watermark and a lookback
\* of 2 days the run returns 2.
C7_TriggeredCount ==
    /\ pull.pc = "returned" =>
          pull.result.sensors_triggered = Len(RunEvents("trigger_action"))
    /\ (PullFinished /\ PullOneSensorCatalog /\ pull.lookback = 2
          /\ Len(RunEvents("get_state")) = 1 /\ ~pull.device_state.present) =>
          pull.result = PullReturned(2)

\* C8: when the catalog fetch yields zero projects, or no catalog at all,
\* the run returns sensors_triggered = 0 without raising, reads and writes no
\* watermark, dispatches nothing and does not call the reading fetcher.
C8_NoProjectsNoWork ==
    (PullFinished /\ \/ pull.fetched.kind = "text"
                     \/ /\ pull.fetched.kind = "catalog"
                        /\ pull.fetched.catalog.projects = <<>>) =>
        /\ pull.result = PullReturned(0)
        /\ RunTrace = <<>>
        /\ rd_pc = "idle"

\* every sensor of the catalog, in catalog order
RECURSIVE SensorsOfStations(_)
SensorsOfStations(stations) ==
    IF stations = <<>> THEN <<>>
    ELSE Head(stations).sensors \o SensorsOfStations(Tail(stations))

RECURSIVE SensorsOfProjects(_)
SensorsOfProjects(projects) ==
    IF projects = <<>> THEN <<>>
    ELSE SensorsOfStations(Head(projects).stations) \o SensorsOfProjects(Tail(projects))

ExcludedNames == {"Statistics", "Diagnostic Parameters"}
RunHas(op, id) == \E i \in 1..Len(trace) :
    trace[i].run = pull.run /\ trace[i].op = op /\ trace[i].sensor = id

\* C6: no watermark read, dispatch or watermark write ever concerns a sensor
\* named exactly "Statistics" or "Diagnostic Parameters", wherever it stands
\* in its station; every sensor of any other name, also one that differs in
\* letter case only, is processed when the run reaches it.
C6_ExcludedSensorsUntouched ==
    /\ \A i \in 1..Len(trace) : trace[i].name \notin ExcludedNames
    /\ \A i \in 1..Len(tasks) : tasks[i].sensor \notin {"x1", "x2"}
    /\ store["x1"] = NoState /\ store["x2"] = NoState
    /\ (pull.pc \notin {"idle", "get_projects"} /\ pull.fetched.kind = "catalog") =>
          LET kept == SelectSeq(SensorsOfProjects(pull.fetched.catalog.projects),
                                LAMBDA sn : sn.name \notin ExcludedNames)
          IN
          /\ Len(pull.work) = Len(kept)
          /\ \A i \in 1..Len(kept) :
                /\ pull.work[i].sensor = kept[i]
                /\ (i < pull.idx \/ (i = pull.idx /\ pull.pc # "get_state")) =>
                      RunHas("get_state", kept[i].id)
                /\ pull.pc = "returned" =>
                      RunHas("get_state", kept[i].id) /\ RunHas("set_state", kept[i].id)

\* a completed run over a station that lists "Statistics", "Diagnostic
\* Parameters" and "statistics": the lower-case one had its watermark written
C6_Witness ==
    /\ pull.pc = "returned"
    /\ \E sn \in {SensorsOfProjects(pull.fetched.catalog.projects)[i] :
                    i \in 1..Len(SensorsOfProjects(pull.fetched.catalog.projects))} :
          sn.name = "Diagnostic Parameters"
    /\ \E i \in 1..Len(trace) :
          trace[i].run = pull.run /\ trace[i].op = "set_state" /\ trace[i].name = "statistics"

(* ---------------------------------------------------------------------- *)
(* C11, C12: get_projects and get_sensor_readings on 401, 404 and others   *)
(* ---------------------------------------------------------------------- *)
Unauthorized == Exc("StevensConnectUnauthorizedException", 401)
NotFound == Exc("StevensConnectNotFoundException", 404)

RdLast == rd_reqs[Len(rd_reqs)]
PrLast == pr_reqs[Len(pr_reqs)]

\* every attempt calls get_token once, before its first data request, and
\* its requests carry the token that call returned
RdTokenPerAttempt ==
    /\ rd_pc = "token" => rd_ntok = rd_attempt - 1
    /\ rd_pc \in {"page", "failed", "returned", "raised"} => rd_ntok = rd_attempt
    /\ \A i \in 1..Len(rd_reqs) :
          /\ rd_reqs[i].token = rd_token
          /\ rd_reqs[i].attempt = rd_ntok
    /\ rd_pc = "returned" =>
          /\ rd_exc = NoExc
          /\ rd_result.kind \in {"grouped", "text"}
          /\ rd_result.kind = "grouped" =>
                RdGroupedCount(rd_result.groups) = RdFetchedCount(rd_reqs)

PrTokenPerAttempt ==
    /\ pr_pc = "token" => pr_ntok = pr_attempt - 1
    /\ pr_pc \in {"get", "failed", "returned", "raised"} => pr_ntok = pr_attempt
    /\ \A i \in 1..Len(pr_reqs) :
          /\ pr_reqs[i].attempt = i
          /\ i = pr_ntok => pr_reqs[i].token = pr_token
          /\ (i = pr_ntok - 1 /\ pr_pc # "token") => pr_reqs[i].token = pr_prev
    /\ Len(pr_reqs) <= pr_ntok
    /\ pr_pc = "returned" =>
          /\ pr_exc = NoExc
          /\ pr_result.kind \in {"catalog", "text"}
          /\ pr_result.kind = "catalog" => pr_result.catalog = PrLast.resp.catalog

\* C11 as stated: a 401 from /config-packet or a readings page is always
\* followed by a retry (the call never ends on Unauthorized), every attempt
\* gets its own token from get_token before its first data request and uses
\* only that token, and a successful attempt after a 401 gives the normal
\* result.
C11_Original ==
    /\ RdTokenPerAttempt
    /\ PrTokenPerAttempt
    /\ rd_pc = "raised" => rd_exc # Unauthorized
    /\ pr_pc = "raised" => pr_exc # Unauthorized

\* C11 (amended): a 401 from /config-packet or a readings page is followed by
\* a retry unless the retry budget of the wrapper (10 attempts, 45 seconds)
\* is used up, in which case Unauthorized is raised to the caller; every
\* attempt gets its own token from get_token before its first data request
\* and uses only that token, and a successful attempt after a 401 gives the
\* normal result and no error.
C11_FreshTokenPerAttempt ==
    /\ RdTokenPerAttempt
    /\ PrTokenPerAttempt
    /\ (rd_pc = "raised" /\ rd_exc = Unauthorized) => StaminaStop(rd_attempt, rd_elapsed)
    /\ (pr_pc = "raised" /\ pr_exc = Unauthorized) => StaminaStop(pr_attempt, pr_elapsed)
    /\ (rd_pc = "token" /\ rd_attempt > 1) => rd_exc = Unauthorized
    /\ (pr_pc = "token" /\ pr_attempt > 1) =>
          pr_exc = Unauthorized /\ PrLast.resp.status = 401

\* a second attempt of get_sensor_readings, made with another token than the
\* first, returned the readings of its own pages
C11_Witness ==
    /\ rd_pc = "returned"
    /\ rd_attempt = 2
    /\ rd_old >= 1
    /\ rd_prev = Str("tokA")
    /\ rd_token = Str("tokB")
    /\ rd_result.kind = "grouped"
    /\ rd_result.groups # <<>>

\* C12: a 404 from /config-packet or a readings page ends the call with
\* StevensConnectNotFoundException: that request is the last one, nothing is
\* retried; any error status other than 401 and 404 ends it the same way
\* with the raw HTTPStatusError.
C12_NotFoundAndOthersNotRetried ==
    /\ \A i \in 1..Len(rd_reqs) :
          (rd_reqs[i].resp.kind = "http" /\ IsErrorStatus(rd_reqs[i].resp)) => i = Len(rd_reqs)
    /\ (Len(rd_reqs) > 0 /\ RdLast.resp.status = 404) =>
          /\ rd_pc \in {"failed", "raised"}
          /\ rd_exc = NotFound
          /\ rd_pc = "raised" => rd_result = RdRaised(NotFound)
    /\ (Len(rd_reqs) > 0 /\ RdLast.resp.status \in ErrorStatuses \ {401}) =>
          /\ rd_pc \in {"failed", "raised"}
          /\ rd_attempt = RdLast.attempt
    /\ (Len(rd_reqs) > 0 /\ RdLast.resp.status \in ErrorStatuses \ {401, 404}) =>
          /\ rd_exc = Exc("HTTPStatusError", RdLast.resp.status)
          /\ rd_pc = "raised" => rd_result = RdRaised(rd_exc)
    /\ \A i \in 1..Len(pr_reqs) :
          pr_reqs[i].resp.status \in ErrorStatuses \ {401} =>
              /\ i = Len(pr_reqs)
              /\ pr_pc \in {"failed", "raised"}
              /\ pr_attempt = i
              /\ pr_exc = IF pr_reqs[i].resp.status = 404 THEN NotFound
                          ELSE Exc("HTTPStatusError", pr_reqs[i].resp.status)
              /\ pr_pc = "raised" => pr_result = PrRaised(pr_exc)

\* the second readings page answered 404: NotFound raised, no third request
C12_Witness ==
    /\ rd_pc = "raised"
    /\ Len(rd_reqs) = 2
    /\ RdLast.resp.status = 404
    /\ rd_result = RdRaised(NotFound)
    /\ rd_attempt = 1

(* ---------------------------------------------------------------------- *)
(* C13, C18: action_pull_sensor_observations_per_station                   *)
(* ---------------------------------------------------------------------- *)
SnFinished == sn_pc \in {"returned", "raised"}
SentBatches == [i \in 1..Len(sn_sent) |-> sn_sent[i].batch]
SentSizes == [i \in 1..Len(sn_sent) |-> Len(sn_sent[i].batch)]
RECURSIVE AcceptedSum(_)
AcceptedSum(sent) ==
    IF sent = <<>> THEN 0 ELSE Head(sent).accepted + AcceptedSum(Tail(sent))

\* C13: the n transformed observations, one per timestamp group, go to the
\* sink in ceil(n/200) batches, in order, every batch but the last of size
\* 200 and every observation in exactly one batch (450 give 200, 200, 50);
\* the returned observations_extracted is the sum of the numbers of items
\* the sink reported as accepted for the batches.
C13_BatchesAndAcceptedSum ==
    LET n == Len(sn_data) IN
    /\ sn_pc \in {"send", "returned"} =>
          /\ sn_fetched.kind = "grouped" => n = Len(sn_fetched.groups)
          /\ Flatten(SentBatches) \o Flatten(sn_batches) = sn_data
          /\ \A i \in 1..Len(sn_sent) :
                i < Len(sn_sent) + Len(sn_batches) => Len(sn_sent[i].batch) = BATCH_SIZE
          /\ \A i \in 1..Len(sn_sent) : Len(sn_sent[i].batch) \in 1..BATCH_SIZE
    /\ (sn_pc = "returned" /\ n > 0) =>
          /\ sn_batches = <<>>
          /\ Len(sn_sent) = (n + BATCH_SIZE - 1) \div BATCH_SIZE
          /\ sn_result = SnReturned(AcceptedSum(sn_sent))
          /\ n = 450 => SentSizes = <<200, 200, 50>>

\* 450 observations sent as 200, 200, 50, of which the sink accepted some
\* but not all
C13_Witness ==
    /\ sn_pc = "returned"
    /\ Len(sn_data) = 450
    /\ SentSizes = <<200, 200, 50>>
    /\ sn_sent[1].accepted = 199
    /\ sn_sent[3].accepted = 50
    /\ sn_result.observations_extracted = AcceptedSum(sn_sent)
    /\ sn_result.observations_extracted < 450

\* C18: when the reading fetch gives no readings (an empty mapping, or no
\* mapping at all) the handler returns observations_extracted = 0 without
\* raising, transforms nothing and never calls the sink.
C18_NoReadingsNoWork ==
    (SnFinished /\ \/ sn_fetched.kind = "text"
                   \/ sn_fetched.kind = "grouped" /\ sn_fetched.groups = <<>>) =>
        /\ sn_result = SnReturned(0)
        /\ sn_data = <<>>
        /\ sn_sent = <<>>

(* ---------------------------------------------------------------------- *)
(* C15, C16, C17: what the handlers make of failures                       *)
(* ---------------------------------------------------------------------- *)
AuFinished == au_pc \in {"returned", "raised"}
BadRequest == Exc("StevensConnectBadRequestException", 400)

\* C15: when /authenticate succeeds with an empty or falsy envelope,
\* get_token returns the raw response body instead of a token, and
\* action_auth takes that string as falsy and reports valid_credentials =
\* False.
C15_RawBodyIsBadCredentials ==
    (AuFinished /\ TkLast.kind = "http" /\ TkLast.json = "falsy") =>
        /\ tk_result = Returned(Str(TkLast.text))
        /\ au_result.kind = "return"
        /\ au_result.valid_credentials = "False"

\* C16: a BadRequest (400) from authentication makes action_auth return
\* valid_credentials = False with the status code 400 instead of raising,
\* while action_pull_observations and
\* action_pull_sensor_observations_per_station raise the same BadRequest to
\* their caller and return no result value.
C16_BadRequestFatalButAtAuth ==
    /\ (AuFinished /\ tk_result.kind = "raise" /\ tk_result.exc = BadRequest) =>
          /\ au_pc = "returned"
          /\ au_result.kind = "return"
          /\ au_result.valid_credentials = "False"
          /\ au_result.status_code = 400
    /\ (PullFinished /\ pull.fetched.kind = "raise" /\ pull.fetched.exc = BadRequest) =>
          /\ pull.pc = "raised"
          /\ pull.result.kind = "raise"
          /\ pull.result.exc = BadRequest
    /\ (SnFinished /\ sn_fetched.kind = "raise" /\ sn_fetched.exc = BadRequest) =>
          /\ sn_pc = "raised"
          /\ sn_result.kind = "raise"
          /\ sn_result.exc = BadRequest

\* /authenticate answered 400 after an attempt that failed otherwise, and
\* action_auth returned its dict
C16_Witness ==
    /\ au_pc = "returned"
    /\ Len(tk_hist) = 2
    /\ TkLast.status = 400
    /\ au_result.valid_credentials = "False"
    /\ au_result.status_code = 400

\* C17: when the catalog fetch of action_pull_observations fails with
\* Unauthorized, BadRequest or another HTTP status error, the run raises that
\* exception and reads no watermark, dispatches nothing and writes no
\* watermark; when the reading fetch of
\* action_pull_sensor_observations_per_station fails, the handler raises that
\* exception and sends nothing to the sink.
C17_FetchFailurePropagates ==
    /\ (pull.pc \notin {"off", "idle", "get_projects"} /\ pull.fetched.kind = "raise") =>
          /\ pull.pc = "raised"
          /\ pull.result.kind = "raise"
          /\ pull.result.exc = pull.fetched.exc
          /\ RunTrace = <<>>
    /\ (sn_pc # "fetch" /\ sn_fetched.kind = "raise") =>
          /\ sn_pc = "raised"
          /\ sn_result.kind = "raise"
          /\ sn_result.exc = sn_fetched.exc
          /\ sn_sent = <<>>
          /\ sn_data = <<>>

\* a second run whose catalog fetch ended on Unauthorized, after a first run
\* that had read and written a watermark
C17_Witness ==
    /\ pull.pc = "raised"
    /\ pull.run = 2
    /\ pull.fetched.kind = "raise"
    /\ pull.fetched.exc = Unauthorized
    /\ \E i \in 1..Len(trace) : trace[i].run = 1 /\ trace[i].op = "set_state"
    /\ RunTrace = <<>>

(* ---------------------------------------------------------------------- *)
(* C14, C19, C20: the per-sensor cycle of action_pull_observations         *)
(* ---------------------------------------------------------------------- *)
\* the run has a catalog and is in or past its sensor loop
PullInLoop == pull.pc \notin {"off", "idle", "get_projects"} /\ pull.fetched.kind = "catalog"
\* position of a sensor in the order the loops reach the sensors
WorkIndex(id) == CHOOSE j \in 1..Len(pull.work) : pull.work[j].sensor.id = id
RunCount(op, id) ==
    Len(SelectSeq(trace, LAMBDA e : e.run = pull.run /\ e.op = op /\ e.sensor = id))
\* channels[0].channel_health["last_reading"] is there to be read
HasLastReading(sensor) ==
    /\ sensor.channels # <<>>
    /\ sensor.channels[1].channel_health.has_last_reading

\* C14: the watermark written for a sensor at the end of its cycle is the
\* catalog value channels[0].channel_health["last_reading"] without its
\* suffix " (UTC)"; it is written for every sensor whose cycle the run went
\* through, whatever becomes of the sub-tasks dispatched for it.
C14_WatermarkFromCatalog ==
    PullInLoop =>
        \A j \in 1..Len(pull.work) :
            LET sensor == pull.work[j].sensor
                last_reading == sensor.channels[1].channel_health.last_reading
            IN
            /\ RunHas("set_state", sensor.id) =>
                  /\ HasLastReading(sensor)
                  /\ last_reading[Len(last_reading)] = UtcPart
                  /\ store[sensor.id].present
                  /\ store[sensor.id].updated_at = SubSeq(last_reading, 1, Len(last_reading) - 1)
            /\ (PullFinished /\ RunHas("get_state", sensor.id) /\ HasLastReading(sensor)) =>
                  RunCount("set_state", sensor.id) = 1

\* C19: an exception raised while one sensor is processed ends the run: the
\* run goes on to a later sensor only when every earlier one was completed
\* with its watermark write, nothing is read, dispatched or written for the
\* sensors after the one that raised, and what was dispatched and written
\* for the earlier sensors stays as it is.
C19_ExceptionAbortsRun ==
    PullInLoop =>
        /\ \A i \in 1..Len(RunTrace) : WorkIndex(RunTrace[i].sensor) <= pull.idx
        /\ \A j \in 1..(pull.idx - 1) :
              /\ RunCount("get_state", pull.work[j].sensor.id) = 1
              /\ RunCount("set_state", pull.work[j].sensor.id) = 1
              /\ store[pull.work[j].sensor.id] = State(latest_time(pull.work[j].sensor).value)
        /\ Len(tasks) = Len(SelectSeq(trace, LAMBDA e : e.op = "trigger_action"))
        /\ pull.pc = "raised" =>
              /\ pull.result.kind = "raise"
              /\ RunCount("set_state", pull.work[pull.idx].sensor.id) = 0

\* the second of three sensors raised: the first one's watermark write
\* stands, the third was never touched
C19_Witness ==
    /\ pull.pc = "raised"
    /\ pull.fetched.kind = "catalog"
    /\ Len(pull.work) = 3
    /\ pull.idx = 2
    /\ RunCount("set_state", pull.work[1].sensor.id) = 1
    /\ store[pull.work[1].sensor.id] = State(latest_time(pull.work[1].sensor).value)
    /\ RunCount("get_state", pull.work[2].sensor.id) = 1
    /\ RunCount("get_state", pull.work[3].sensor.id) = 0

\* C20: within a run the sensors are handled one after another in catalog
\* order: for each non-excluded sensor first the watermark read, then all
\* its window dispatches, then exactly one watermark write, which precedes
\* the read of the next sensor; a run that completes has written exactly
\* one watermark for every non-excluded sensor.
C20_SequentialSensorCycles ==
    PullInLoop =>
        LET ev == RunTrace
            pos(i) == WorkIndex(ev[i].sensor)
        IN
        /\ \A i \in 1..Len(ev) :
              IF ev[i].op = "get_state"
              THEN \/ i = 1 /\ pos(i) = 1
                   \/ i > 1 /\ ev[i - 1].op = "set_state" /\ pos(i - 1) = pos(i) - 1
              ELSE /\ i > 1
                   /\ pos(i - 1) = pos(i)
                   /\ ev[i - 1].op \in {"get_state", "trigger_action"}
        /\ pull.pc = "set_state" =>
              RunCount("trigger_action", PullSensor.id)
                  = Len(generate_date_pairs(pull.start_date, pull.stop_date))
        /\ PullFinished =>
              \A j \in 1..Len(pull.work) :
                  (RunHas("get_state", pull.work[j].sensor.id)
                      /\ HasLastReading(pull.work[j].sensor)) =>
                      /\ RunCount("set_state", pull.work[j].sensor.id) = 1
                      /\ j = pull.idx =>
                            RunCount("trigger_action", pull.work[j].sensor.id)
                                = Len(generate_date_pairs(pull.start_date, pull.stop_date))
        /\ pull.pc = "returned" =>
              \A j \in 1..Len(pull.work) :
                  RunCount("set_state", pull.work[j].sensor.id) = 1

(* ---------------------------------------------------------------------- *)
(* C21                                                                     *)
(* ---------------------------------------------------------------------- *)
CoEnded(r) == runs[r].pc \in {"returned", "raised"}

\* positions of the trace where the store is called with op for sensor id
CoCalls(op, id) == {i \in 1..Len(trace) : trace[i].op = op /\ trace[i].sensor = id}

\* both runs read the watermark of sensor id before either wrote it
CoBothReadFirst(id) ==
    /\ \A r \in CoRuns : \E i \in CoCalls("get_state", id) : trace[i].run = r
    /\ \A r \in CoRuns : \E i \in CoCalls("get_state", id) :
            /\ trace[i].run = r
            /\ \A j \in CoCalls("set_state", id) : i < j

\* the windows run r computed for the sensor it is at
CoWindows(r) == generate_date_pairs(runs[r].start_date, runs[r].stop_date)

\* run r dispatched a sub-task for window w of sensor id
CoDispatched(r, id, w) ==
    \E i \in CoCalls("trigger_action", id) :
        /\ trace[i].run = r
        /\ tasks[trace[i].arg].start = w.lower
        /\ tasks[trace[i].arg].stop = w.upper

\* the updated_at run r writes for sensor id
CoWritten(r, id) ==
    LET k == CHOOSE k \in 1..Len(runs[r].work) : runs[r].work[k].sensor.id = id
    IN State(latest_time(runs[r].work[k].sensor).value)

\* the last call of set_state for sensor id
CoLastWrite(id) ==
    CHOOSE i \in CoCalls("set_state", id) : \A j \in CoCalls("set_state", id) : j <= i

\* C21: when two overlapping runs of action_pull_observations have both read
\* the watermark of a sensor before either wrote it, each of them dispatches
\* a sub-task for every window it computed from that read (so the windows
\* are dispatched twice), and the watermark the store holds at the end is
\* the one written by the set_state call that was executed last.
C21_UncoordinatedRuns ==
    (\A r \in CoRuns : CoEnded(r)) =>
        \A id \in SensorIds :
            CoBothReadFirst(id) =>
                /\ \A r \in CoRuns :
                     (runs[r].work # <<>> /\ CoSensor(r).id = id) =>
                        \A k \in 1..Len(CoWindows(r)) : CoDispatched(r, id, CoWindows(r)[k])
                /\ CoCalls("set_state", id) # {} =>
                     store[id] = CoWritten(trace[CoLastWrite(id)].run, id)

\* the last-writer part alone
C21_LastWriterWins ==
    \A id \in SensorIds :
        CoCalls("set_state", id) # {} =>
            store[id] = CoWritten(trace[CoLastWrite(id)].run, id)

\* both runs read the same watermark first, then both wrote different values
C21_BothWrote ==
    /\ \A r \in CoRuns : CoEnded(r)
    /\ CoBothReadFirst("s1")
    /\ Cardinality(CoCalls("set_state", "s1")) = 2
    /\ CoWritten(1, "s1") # CoWritten(2, "s1")

(* ---------------------------------------------------------------------- *)
(* C22                                                                     *)
(* ---------------------------------------------------------------------- *)
\* every attempt of get_projects so far got a token and was answered 401
PrAll401 ==
    /\ pr_reqs # <<>>
    /\ Len(pr_reqs) = pr_ntok
    /\ \A i \in 1..Len(pr_reqs) : pr_reqs[i].resp.status = 401

TkDone == tk_pc \in {"returned", "raised"}
PrDone == pr_pc \in {"returned", "raised"}

\* C22 as stated: while /config-packet answers 401 to every request,
\* get_projects never returns and never raises to its caller.
C22_Original == PrAll401 => ~PrDone

\* the retry budget: a call makes at most 10 attempts; a call that ends on
\* the retried error has used up its attempts or its 45 seconds; a call of
\* get_projects answered 401 every time ends with Unauthorized
RetryBudget ==
    /\ tk_attempt <= StaminaAttempts /\ pr_attempt <= StaminaAttempts
    /\ Len(tk_hist) <= StaminaAttempts /\ Len(pr_reqs) <= StaminaAttempts
    /\ (PrAll401 /\ PrDone) =>
          /\ pr_result = PrRaised(Unauthorized)
          /\ pr_attempt >= StaminaAttempts \/ pr_elapsed >= StaminaTimeout
    /\ (tk_pc = "raised" /\ TkOtherError(TkLast)) =>
          tk_attempt >= StaminaAttempts \/ tk_elapsed >= StaminaTimeout

\* C22 (amended): the retries of get_token and get_projects are bounded by
\* the budget of the wrapper (10 attempts, 45 seconds); a call of either
\* always comes to an end, and get_projects answered 401 at every
\* /config-packet request ends by raising Unauthorized once the budget is
\* used up.
C22_RetryBudgetEndsCall ==
    /\ []RetryBudget
    /\ <>(tk_pc = "idle" \/ TkDone)
    /\ <>(pr_pc = "idle" \/ PrDone)

\* get_projects was answered 401 at each of its attempts, at least three,
\* and has raised Unauthorized
C22_Witness ==
    /\ PrAll401
    /\ pr_pc = "raised"
    /\ pr_attempt >= 3
    /\ pr_result = PrRaised(Unauthorized)

(* ---------------------------------------------------------------------- *)
(* C23                                                                     *)
(* ---------------------------------------------------------------------- *)
\* the page requests of the current attempt were all answered with readings
RdAllData ==
    \A i \in 1..Len(rd_reqs) :
        /\ rd_reqs[i].resp.kind = "http"
        /\ rd_reqs[i].resp.status = 200
        /\ rd_reqs[i].resp.json = "data"

\* last_page never decreased from one response to the next
RdNeverDecreases ==
    \A i \in 1..Len(rd_reqs) : \A j \in i..Len(rd_reqs) :
        rd_reqs[i].resp.last_page <= rd_reqs[j].resp.last_page

\* C23 as stated: when last_page never decreases from one response to the
\* next, the fetch does not return.
C23_Original ==
    (Len(rd_reqs) >= 2 /\ RdAllData /\ RdNeverDecreases) => rd_pc # "returned"

\* C23 (amended): the paging loop has no page cap: after a page answered with
\* readings the next page is requested when and only when that answer's
\* last_page is greater than the page just requested, whatever the page
\* number; the fetch returns at the first page whose last_page is not
\* greater.
C23_NextPageWhileLastPageAhead ==
    \A i \in 1..Len(rd_reqs) :
        LET req == rd_reqs[i] IN
        (req.resp.kind = "http" /\ req.resp.status = 200 /\ req.resp.json = "data") =>
            /\ req.page = i
            /\ req.resp.last_page > req.page =>
                  \/ i < Len(rd_reqs) /\ rd_reqs[i + 1].page = req.page + 1
                  \/ i = Len(rd_reqs) /\ rd_pc = "page" /\ rd_page = req.page + 1
            /\ req.resp.last_page <= req.page =>
                  /\ i = Len(rd_reqs)
                  /\ rd_pc = "returned"
                  /\ rd_result.kind = "grouped"

\* every answer reported a last_page ahead of its page, and the loop is
\* about to request a page beyond the pages the model follows
C23_Witness ==
    /\ rd_pc = "page"
    /\ rd_page = MaxPages + 1
    /\ Len(rd_reqs) = MaxPages
    /\ RdAllData
    /\ RdNeverDecreases
    /\ \A i \in 1..Len(rd_reqs) : rd_reqs[i].resp.last_page > rd_reqs[i].page

(* ---------------------------------------------------------------------- *)
(* C24                                                                     *)
(* ---------------------------------------------------------------------- *)
\* the readings of the pages an attempt fetched, in the order fetched: page
\* by page, channel by channel
RECURSIVE RdFetched(_)
RdFetched(reqs) ==
    IF reqs = <<>> THEN <<>>
    ELSE Flatten(Head(reqs).resp.readings) \o RdFetched(Tail(reqs))

\* how often reading x occurs in the sequence
Occurrences(x, seq) == Cardinality({i \in 1..Len(seq) : seq[i] = x})

RECURSIVE OccurrencesInGroups(_, _)
OccurrencesInGroups(x, groups) ==
    IF groups = <<>> THEN 0
    ELSE Occurrences(x, Head(groups).readings) + OccurrencesInGroups(x, Tail(groups))

\* the first position of a reading with timestamp ts in the sequence
FirstSeen(ts, seq) ==
    CHOOSE i \in 1..Len(seq) :
        /\ seq[i].timestamp = ts
        /\ \A j \in 1..(i - 1) : seq[j].timestamp # ts

\* C24: the grouped result of get_sensor_readings is a partition of the
\* fetched readings by timestamp: every fetched reading is in exactly one
\* group (as often as it was fetched) and nothing else is, a group's key is
\* the timestamp of each of its readings, no two groups have the same key,
\* no group is empty, and the groups are in the order in which their
\* timestamps first appear among the fetched readings.
C24_GroupsPartitionByTimestamp ==
    (rd_pc = "returned" /\ rd_result.kind = "grouped") =>
        LET groups == rd_result.groups
            fetched == RdFetched(rd_reqs)
        IN
        /\ \A i \in 1..Len(fetched) :
              /\ Cardinality({g \in 1..Len(groups) :
                                 Occurrences(fetched[i], groups[g].readings) > 0}) = 1
              /\ OccurrencesInGroups(fetched[i], groups) = Occurrences(fetched[i], fetched)
        /\ \A g \in 1..Len(groups) :
              /\ groups[g].readings # <<>>
              /\ \A k \in 1..Len(groups[g].readings) :
                    /\ groups[g].readings[k].timestamp = groups[g].timestamp
                    /\ Occurrences(groups[g].readings[k], fetched) > 0
        /\ \A g, h \in 1..Len(groups) :
              g < h =>
                 /\ groups[g].timestamp # groups[h].timestamp
                 /\ FirstSeen(groups[g].timestamp, fetched)
                       < FirstSeen(groups[h].timestamp, fetched)

\* two pages were fetched; the result has two groups, the first one holding
\* readings of both pages and of both channels
C24_Witness ==
    /\ rd_pc = "returned"
    /\ rd_result.kind = "grouped"
    /\ Len(rd_reqs) = 2
    /\ Len(rd_result.groups) = 2
    /\ Len(rd_result.groups[1].readings) >= 3
    /\ \E k \in 1..Len(rd_result.groups[1].readings) :
          rd_result.groups[1].readings[k].channel_id = "c2"
    /\ Occurrences(rd_result.groups[1].readings[1], RdFetched(<<rd_reqs[2]>>)) = 0

(* ---------------------------------------------------------------------- *)
(* C25                                                                     *)
(* ---------------------------------------------------------------------- *)
\* the fetch gave a mapping with at least one timestamp
SnGrouped == sn_fetched.kind = "grouped" /\ sn_fetched.groups # <<>>

\* the channel of the snapshot with this id, if any
SnapHas(id) ==
    \E i \in 1..Len(Snapshot.sensor.channels) : Snapshot.sensor.channels[i].id = id
SnapChannelOf(id) ==
    Snapshot.sensor.channels[CHOOSE i \in 1..Len(Snapshot.sensor.channels) :
                                /\ Snapshot.sensor.channels[i].id = id
                                /\ \A j \in 1..(i - 1) : Snapshot.sensor.channels[j].id # id]

\* the symbol of the first unit with this id, "" when there is none
UnitSymbol(unit_id) ==
    IF \E i \in 1..Len(Snapshot.units) : Snapshot.units[i].id = unit_id
    THEN Snapshot.units[CHOOSE i \in 1..Len(Snapshot.units) :
                            /\ Snapshot.units[i].id = unit_id
                            /\ \A j \in 1..(i - 1) : Snapshot.units[j].id # unit_id].unit
    ELSE ""

\* the map holds key with this value, once
Holds(entries, key, value) ==
    /\ \E i \in 1..Len(entries) : entries[i] = [key |-> key, value |-> value]
    /\ Cardinality({i \in 1..Len(entries) : entries[i].key = key}) = 1

\* some reading of some group has a channel the snapshot does not list
SnStray ==
    \E g \in 1..Len(sn_fetched.groups) : \E k \in 1..Len(sn_fetched.groups[g].readings) :
        ~SnapHas(sn_fetched.groups[g].readings[k].channel_id)

\* reading k is the last one of the group with its channel name
LastOfName(readings, k) ==
    \A m \in (k + 1)..Len(readings) :
        SnapHas(readings[m].channel_id) =>
            SnapChannelOf(readings[m].channel_id).name
                # SnapChannelOf(readings[k].channel_id).name

\* C25 as stated: one observation per timestamp group, recorded at the
\* group's timestamp; for every reading of the group whose channel is in the
\* snapshot the additional map holds the channel name mapped to the
\* reading's value with the unit symbol ("" when no unit has the channel's
\* unit_id) and "<name> Health" mapped to the channel's health in percent.
C25_Original ==
    (SnGrouped /\ sn_pc # "fetch") =>
        /\ Len(sn_data) = Len(sn_fetched.groups)
        /\ \A g \in 1..Len(sn_data) :
              LET readings == sn_fetched.groups[g].readings IN
              /\ sn_data[g].recorded_at = sn_fetched.groups[g].timestamp
              /\ \A k \in 1..Len(readings) :
                    SnapHas(readings[k].channel_id) =>
                        LET channel == SnapChannelOf(readings[k].channel_id) IN
                        /\ Holds(sn_data[g].additional, <<channel.name>>,
                                 <<readings[k].reading, UnitSymbol(channel.unit_id)>>)
                        /\ Holds(sn_data[g].additional, <<channel.name, "Health">>,
                                 <<channel.health, "%">>)

\* C25 (amended): when a reading of some group has a channel that is not in
\* the snapshot, transform raises TypeError and nothing is sent; otherwise
\* there is one observation per timestamp group, recorded at the group's
\* timestamp, whose additional map holds, for the last reading of the group
\* with each channel name, the name mapped to that reading's value with the
\* unit symbol ("" when no unit has the channel's unit_id) and
\* "<name> Health" mapped to the channel's health in percent, and holds no
\* other key.
C25_TransformLastReadingPerName ==
    (SnGrouped /\ sn_pc # "fetch") =>
        IF SnStray
        THEN /\ sn_pc = "raised"
             /\ sn_result = SnRaised(Exc("TypeError", 0))
             /\ sn_data = <<>>
             /\ sn_sent = <<>>
        ELSE /\ Len(sn_data) = Len(sn_fetched.groups)
             /\ \A g \in 1..Len(sn_data) :
                   LET readings == sn_fetched.groups[g].readings
                       additional == sn_data[g].additional
                   IN
                   /\ sn_data[g].recorded_at = sn_fetched.groups[g].timestamp
                   /\ \A k \in 1..Len(readings) :
                         LastOfName(readings, k) =>
                             LET channel == SnapChannelOf(readings[k].channel_id) IN
                             /\ Holds(additional, <<channel.name>>,
                                      <<readings[k].reading, UnitSymbol(channel.unit_id)>>)
                             /\ Holds(additional, <<channel.name, "Health">>,
                                      <<channel.health, "%">>)
                   /\ \A i \in 1..Len(additional) :
                         \E k \in 1..Len(readings) :
                             additional[i].key[1] = SnapChannelOf(readings[k].channel_id).name

\* a group with two readings of channel "Temp" and one of "Wind", whose unit
\* is unknown: the later Temp value with its unit, Wind with no unit
C25_Witness ==
    /\ sn_pc = "returned"
    /\ sn_fetched = RdGrouped(NamedGroups)
    /\ Len(sn_data) = 1
    /\ sn_data[1].recorded_at = RawTime(1, "utc")
    /\ Holds(sn_data[1].additional, <<"Temp">>, <<11, "C">>)
    /\ Holds(sn_data[1].additional, <<"Wind">>, <<20, "">>)
    /\ Holds(sn_data[1].additional, <<"Wind", "Health">>, <<80, "%">>)

(* ---------------------------------------------------------------------- *)
(* C26                                                                     *)
(* ---------------------------------------------------------------------- *)
\* an earlier run wrote the watermark of sensor id
WrittenByEarlierRun(id) ==
    \E i \in 1..Len(trace) :
        trace[i].run < pull.run /\ trace[i].op = "set_state" /\ trace[i].sensor = id

\* the windows the current run dispatched for sensor id
RunWindows(id) ==
    LET ev == SelectSeq(trace, LAMBDA e : e.run = pull.run /\ e.op = "trigger_action"
                                          /\ e.sensor = id)
    IN [i \in 1..Len(ev) |-> tasks[ev[i].arg]]

C26_StartAtWrittenWatermark ==
    (PullInLoop /\ PullFinished /\ RunHas("get_state", PullSensor.id)
        /\ WrittenByEarlierRun(PullSensor.id)) =>
        /\ pull.device_state.present
        /\ pull.start_date = pull.device_state.updated_at[1].t
        /\ pull.start_date <= pull.now

(* ---------------------------------------------------------------------- *)
(* C27                                                                     *)
(* ---------------------------------------------------------------------- *)
\* the run raised while the windows of its sensor were not all dispatched
RaisedInWindowLoop ==
    /\ PullInLoop
    /\ pull.pc = "raised"
    /\ pull.pairs # <<>>
    /\ RunHas("get_state", PullSensor.id)

\* a run that raised in the window loop of a sensor made no watermark write
\* for it: the store holds for the sensor what the run read
NoWriteWhenWindowRaises ==
    RaisedInWindowLoop =>
        /\ RunCount("set_state", PullSensor.id) = 0
        /\ store[PullSensor.id] = pull.device_state

\* a watermark changes only in the set_state step of a run that has no
\* window of that sensor left to dispatch, never in a step that raises
WriteOnlyAfterLastWindow ==
    \A id \in SensorIds :
        store'[id] # store[id] =>
            /\ pull.pc = "set_state"
            /\ PullSensor.id = id
            /\ pull.pairs = <<>>
            /\ pull'.pc # "raised"

\* C27: when building or dispatching a window of a sensor raises, the run
\* leaves the stored watermark of that sensor as it was (the write comes
\* only after the last window was dispatched), so the next run reads the
\* same watermark, or finds none and uses the lookback again.
C27_RaiseLeavesWatermark ==
    /\ []NoWriteWhenWindowRaises
    /\ [][WriteOnlyAfterLastWindow]_vars

\* the first run raised at the first window of a sensor; the second run has
\* read the same watermark for it and raised at its first window again
C27_Witness ==
    /\ pull.run = 2
    /\ RaisedInWindowLoop
    /\ pull.device_state.present
    /\ store[PullSensor.id] = pull.device_state
    /\ \E i \in 1..Len(trace) :
          /\ trace[i].run = 1
          /\ trace[i].op = "get_state"
          /\ trace[i].sensor = PullSensor.id
    /\ \A i \in 1..Len(trace) :
          trace[i].sensor = PullSensor.id => trace[i].op = "get_state"

(* ---------------------------------------------------------------------- *)
(* C28                                                                     *)
(* ---------------------------------------------------------------------- *)
\* the channel lists of the pages answered with readings, in request order
RECURSIVE RdPageLists(_)
RdPageLists(reqs) ==
    IF reqs = <<>> THEN <<>>
    ELSE (IF RdIsPage(Head(reqs)) THEN Head(reqs).resp.readings ELSE <<>>)
         \o RdPageLists(Tail(reqs))

\* C28: all page requests of one attempt carry the token that attempt got
\* from get_token; an attempt started after a 401 begins at page 1 with a
\* token obtained anew and an empty accumulator, so the accumulator holds the
\* readings of the current attempt's pages only, and the grouped result
\* holds every reading of the last attempt's pages exactly as often as that
\* attempt fetched it, with nothing of the abandoned attempts added.
C28_RetryStartsOver ==
    /\ \A i \in 1..Len(rd_reqs) :
          /\ rd_reqs[i].token = rd_token
          /\ rd_reqs[i].attempt = rd_ntok
          /\ rd_reqs[i].page = i
    /\ rd_pc \in {"page", "failed", "returned", "raised"} => rd_ntok = rd_attempt
    /\ (rd_pc = "page" /\ rd_reqs = <<>>) => (rd_page = 1 /\ rd_total = <<>>)
    /\ rd_pc \in {"page", "failed", "returned", "raised"} =>
          rd_total = RdPageLists(rd_reqs)
    /\ (rd_pc = "token" /\ rd_attempt > 1) =>
          /\ rd_exc = Unauthorized
          /\ rd_old >= rd_attempt - 1
    /\ (rd_pc = "returned" /\ rd_result.kind = "grouped") =>
          LET fetched == RdFetched(rd_reqs) IN
          /\ RdGroupedCount(rd_result.groups) = Len(fetched)
          /\ \A i \in 1..Len(fetched) :
                OccurrencesInGroups(fetched[i], rd_result.groups)
                    = Occurrences(fetched[i], fetched)

\* the first attempt was abandoned at its second page; the second attempt,
\* with another token, fetched two pages and returned their readings
C28_Witness ==
    /\ rd_pc = "returned"
    /\ rd_attempt = 2
    /\ rd_old = 2
    /\ rd_prev # rd_token
    /\ Len(rd_reqs) = 2
    /\ rd_result.kind = "grouped"
    /\ RdGroupedCount(rd_result.groups) = 4
    /\ Len(RdFetched(rd_reqs)) = 4
====
